---- MODULE Spec2Model ----
(***************************************************************************)
(* redash-mcp: the Remote API Gateway (RedashClient) and its job-polling   *)
(* loop, the call-tool dispatcher, the resource handlers and the startup,  *)
(* as a state machine.  A handler is cut at its awaits: one action runs    *)
(* the code from one await to the next.                                    *)
(***************************************************************************)
EXTENDS Integers, Sequences, FiniteSets, TLC

\* ------------------------------------------------------------------ bounds
\* Milliseconds the clock advances in one Tick.
TickMs == 1000
\* The clock stops advancing here (one poll loop needs DefaultTimeout plus a wait).
MaxTime == 62000
\* The keys an argument bag sets next to the required ones, at most.
MaxFields == 2
\* The largest id of a query or dashboard whose URI is formed and read back.
MaxResourceId == 120
\* Milliseconds the clock advances in one LongTick, and where it stops, when two
\* requests are followed at once.
LongTickMs == 20000
LongMaxTime == 100000

\* ------------------------------------------------------- program constants
DefaultTimeout == 60000
DefaultInterval == 1000
StatusCompleted == 3
StatusFailed == 4

\* --------------------------------------------------------- string helpers
Digits == <<"0", "1", "2", "3", "4", "5", "6", "7", "8", "9">>

RECURSIVE NumStr(_)
\* `${n}` for a non-negative integer n.
NumStr(n) == IF n < 10 THEN Digits[n + 1]
             ELSE NumStr(n \div 10) \o Digits[(n % 10) + 1]

\* s.startsWith(p)
StartsWith(s, p) == Len(s) >= Len(p) /\ SubSeq(s, 1, Len(p)) = p

\* s.includes(p)
Includes(s, p) == \E i \in 1..(Len(s) - Len(p) + 1) : SubSeq(s, i, i + Len(p) - 1) = p

\* JSON.stringify of a value the upstream returned (an opaque payload).
Stringify(v) == "json(" \o v \o ")"

\* ------------------------------------------------------ requests and tools
\* The in-flight requests the model follows.
Req == {"r1", "r2"}

\* The tools ListTools declares.
DeclaredTools ==
  {"list_queries", "get_query", "create_query", "update_query", "archive_query",
   "list_data_sources", "execute_query", "list_dashboards", "get_dashboard",
   "get_visualization", "execute_adhoc_query", "create_visualization",
   "update_visualization", "delete_visualization"}

\* The tool names the README lists under "Available Tools".
ReadmeTools ==
  {"list-queries", "get-query", "create-query", "update-query", "archive-query",
   "list-data-sources", "execute-query", "execute-adhoc-query", "list-dashboards",
   "get-dashboard", "get-visualization", "create-visualization",
   "update-visualization", "delete-visualization"}

\* Names a caller may send that ListTools does not declare.
UndeclaredNames == ReadmeTools \cup {"drop_table"}

ToolNames == DeclaredTools \cup UndeclaredNames

\* The names the early if/else-if of the call-tool handler takes.
EarlyValidated == {"create_query", "update_query"}

\* The case labels of the call-tool handler's switch.
SwitchCases ==
  {"list_queries", "get_query", "archive_query", "list_data_sources",
   "execute_query", "list_dashboards", "get_dashboard", "get_visualization",
   "execute_adhoc_query", "create_visualization", "update_visualization",
   "delete_visualization"}

\* The tools whose Gateway operation may enter the polling protocol.
ExecuteTools == {"execute_query", "execute_adhoc_query"}

\* Entity ids a caller passes (queryId, dashboardId, visualizationId, dataSourceId).
Ids == {42}

\* ---- JavaScript values of argument fields, written as tokens
Undefined == "undefined"
Strings == {"''", "'text'"}
Numbers == {"0", "1"}
Booleans == {"false", "true"}
StringArrays == {"[]", "['t']"}
Values == Strings \cup Numbers \cup Booleans \cup StringArrays \cup {"null", "{}", "{k:1}"}

\* !v is true
Falsy(v) == v \in {Undefined, "null", "false", "0", "''"}

\* v || d
OrElse(v, d) == IF Falsy(v) THEN d ELSE v

\* An object: a function from its keys to their values.  {} has no keys.
EmptyObject == [k \in {} |-> ""]

\* obj[k], undefined for a key obj does not have.
Get(obj, k) == IF k \in DOMAIN obj THEN obj[k] ELSE Undefined

\* JSON.stringify followed by the upstream's JSON.parse: keys whose value is undefined
\* are not transmitted.
JsonBody(obj) == [k \in {x \in DOMAIN obj : obj[x] # Undefined} |-> obj[k]]

\* ---- zod schemas of the tools whose fields the model follows (the id field of a
\* schema, queryId or visualizationId, is the id of the argument bag)
Field(type, optional) == [type |-> type, optional |-> optional]

createQuerySchema ==
  [name |-> Field("string", FALSE), data_source_id |-> Field("number", FALSE),
   query |-> Field("string", FALSE), description |-> Field("string", TRUE),
   options |-> Field("any", TRUE), schedule |-> Field("any", TRUE),
   tags |-> Field("string[]", TRUE)]

updateQuerySchema ==
  [name |-> Field("string", TRUE), data_source_id |-> Field("number", TRUE),
   query |-> Field("string", TRUE), description |-> Field("string", TRUE),
   options |-> Field("any", TRUE), schedule |-> Field("any", TRUE),
   tags |-> Field("string[]", TRUE), is_archived |-> Field("boolean", TRUE),
   is_draft |-> Field("boolean", TRUE)]

updateVisualizationSchema ==
  [type |-> Field("string", TRUE), name |-> Field("string", TRUE),
   description |-> Field("string", TRUE), options |-> Field("any", TRUE)]

\* The fields of the schema of a tool; the other tools' fields are not followed.
SchemaOf(tool) ==
  CASE tool = "create_query" -> createQuerySchema
    [] tool = "update_query" -> updateQuerySchema
    [] tool = "update_visualization" -> updateVisualizationSchema
    [] OTHER -> EmptyObject

\* A zod type accepts the value v.
Accepts(field, v) ==
  \/ field.type = "any"
  \/ v = Undefined /\ field.optional
  \/ field.type = "string" /\ v \in Strings
  \/ field.type = "number" /\ v \in Numbers
  \/ field.type = "boolean" /\ v \in Booleans
  \/ field.type = "string[]" /\ v \in StringArrays

\* z.object(schema).parse(fields) succeeds.
SchemaAccepts(schema, fields) ==
  \A k \in DOMAIN schema : Accepts(schema[k], Get(fields, k))

\* The value z.object(schema).parse(fields) returns: the keys of the schema that the
\* input has; keys the schema does not know are stripped.
Parsed(schema, fields) == [k \in DOMAIN schema \cap DOMAIN fields |-> fields[k]]

\* ---- the argument bags callers send
\* The values a caller may give a field: falsy and truthy ones of the schema's type,
\* and for name and tags one of another type.
FieldValues(k) ==
  CASE k \in {"query", "description", "type"} -> Strings
    [] k = "name" -> Strings \cup {"1"}
    [] k = "data_source_id" -> Numbers
    [] k = "options" -> {"0", "false", "''", "null", "{k:1}"}
    [] k = "schedule" -> {"0", "null", "{k:1}"}
    [] k = "tags" -> StringArrays \cup {"'text'"}
    [] k \in {"is_archived", "is_draft"} -> Booleans
    [] OTHER -> {"'text'"}

\* A key no schema knows.
UnknownKeys == {"owner"}

\* The objects with at most n of the given keys.
Objects(keys, n) ==
  UNION {{f \in [S -> Values] : \A k \in S : f[k] \in FieldValues(k)} :
           S \in {T \in SUBSET keys : Cardinality(T) <= n}}

\* f with the keys and values of g added.
Merge(f, g) == [k \in DOMAIN f \cup DOMAIN g |-> IF k \in DOMAIN g THEN g[k] ELSE f[k]]

\* obj without the key k.
Without(obj, k) == [x \in DOMAIN obj \ {k} |-> obj[x]]

\* The required fields of create_query as a caller sends them: all three, with a
\* falsy name, with the data source 0, and with query left out.
RequiredFields ==
  LET all == [name |-> "'text'", data_source_id |-> "1", query |-> "'text'"]
  IN {all, [all EXCEPT !.name = "''"], [all EXCEPT !.data_source_id = "0"],
      Without(all, "query")}

\* The fields callers send to create_query, update_query and update_visualization.
CreateQueryFields ==
  {Merge(req, opt) :
     req \in RequiredFields,
     opt \in Objects({"description", "options", "schedule", "tags"} \cup UnknownKeys,
                     MaxFields)}
UpdateQueryFields == Objects(DOMAIN updateQuerySchema \cup UnknownKeys, MaxFields)
UpdateVisualizationFields ==
  Objects(DOMAIN updateVisualizationSchema \cup UnknownKeys, MaxFields)

\* The fields of the argument bags sent to a tool.
FieldsOf(name) ==
  CASE name = "create_query" -> CreateQueryFields
    [] name = "update_query" -> UpdateQueryFields
    [] name = "update_visualization" -> UpdateVisualizationFields
    [] OTHER -> {EmptyObject}

\* An argument bag: whether the part of it the model does not spell out satisfies the
\* tool's schema (it is an object, its id is a number), the id it carries, its fields.
ArgBagsOf(name) == [valid : BOOLEAN, id : Ids, fields : FieldsOf(name)]

ArgBags == UNION {ArgBagsOf(name) : name \in ToolNames}

NoRequest ==
  [kind |-> "none", name |-> "", uri |-> "",
   args |-> [valid |-> FALSE, id |-> 42, fields |-> EmptyObject]]

\* ParseOk of a schema that checks the id alone.
ParseOkIdOnly(name, args) == name = "list_data_sources" \/ args.valid

\* schema.parse(args) succeeds; list_data_sources parses nothing.
ParseOk(name, args) ==
  name = "list_data_sources" \/ (args.valid /\ SchemaAccepts(SchemaOf(name), args.fields))

\* ------------------------------------------------------------ upstream data
Payloads == {"rows-a", "rows-b"}
\* The job id the upstream gives the submission of request r: each submission gets its own.
JobIdOf(r) == "job-" \o r
NoId == 0
ResultIds == {NoId, 7}
StatusValues == 1..5
ErrorTexts == {"", "syntax error"}

\* response.data.job of GET /api/jobs/{id}: pending, started and cancelled jobs, a
\* started job that still carries the fields of an earlier run, completed jobs with a
\* stored result or an inline one, failed jobs with and without an error text.
Jobs ==
  {[status |-> s, query_result_id |-> NoId, result |-> "", error |-> ""] :
     s \in StatusValues \ {3, 4}}
  \cup {[status |-> 2, query_result_id |-> 7, result |-> "rows-old",
         error |-> "syntax error"]}
  \cup {[status |-> 3, query_result_id |-> q, result |-> "rows-inline", error |-> ""] :
          q \in ResultIds}
  \cup {[status |-> 4, query_result_id |-> NoId, result |-> "", error |-> e] :
          e \in ErrorTexts}

NoJob == [status |-> 0, query_result_id |-> NoId, result |-> "", error |-> ""]

\* What a failed upstream request rejects with (an AxiosError).
\*   response: the upstream answered with a non-2xx status and a body;
\*   request:  the request was sent and no response came (network failure, timeout).
AxiosFailures ==
  {[isAxios |-> TRUE, hasResponse |-> TRUE, status |-> 500, bodyMessage |-> "boom",
    bodyError |-> "", hasRequest |-> TRUE,
    message |-> "Request failed with status code 500"],
   [isAxios |-> TRUE, hasResponse |-> TRUE, status |-> 404, bodyMessage |-> "",
    bodyError |-> "not found", hasRequest |-> TRUE,
    message |-> "Request failed with status code 404"],
   [isAxios |-> TRUE, hasResponse |-> TRUE, status |-> 502, bodyMessage |-> "",
    bodyError |-> "", hasRequest |-> TRUE,
    message |-> "Request failed with status code 502"],
   [isAxios |-> TRUE, hasResponse |-> FALSE, status |-> 0, bodyMessage |-> "",
    bodyError |-> "", hasRequest |-> TRUE, message |-> "Network Error"],
   [isAxios |-> TRUE, hasResponse |-> FALSE, status |-> 0, bodyMessage |-> "",
    bodyError |-> "", hasRequest |-> FALSE, message |-> "Invalid URL"]}

\* No upstream request has failed.
NoFailure ==
  [isAxios |-> FALSE, hasResponse |-> FALSE, status |-> 0, bodyMessage |-> "",
   bodyError |-> "", hasRequest |-> FALSE, message |-> ""]

\* new Error(msg)
PlainError(msg) ==
  [isAxios |-> FALSE, hasResponse |-> FALSE, status |-> 0, bodyMessage |-> "",
   bodyError |-> "", hasRequest |-> FALSE, message |-> msg]

\* JSON.stringify(axiosError.response.data)
StringifyErrorData(e) ==
  "{" \o (IF e.bodyMessage # "" THEN "message:" \o e.bodyMessage ELSE "")
      \o (IF e.bodyError # "" THEN "error:" \o e.bodyError ELSE "") \o "}"

\* errorData?.message || errorData?.error || JSON.stringify(errorData)
ErrorMessageOf(e) ==
  IF e.bodyMessage # "" THEN e.bodyMessage
  ELSE IF e.bodyError # "" THEN e.bodyError
  ELSE StringifyErrorData(e)

\* --------------------------------------------------------------- outcomes
\* How a call of a function ended: it returned value, or it threw an Error with message.
Returned(v) == [kind |-> "return", value |-> v]
Threw(e) == [kind |-> "throw", value |-> e.message]
NoOutcome == [kind |-> "none", value |-> ""]

\* What a handler gave its caller: a tool result, a resource list, the contents of a
\* resource, or a fault (the handler's promise was rejected).
TextResult(text) ==
  [kind |-> "result", isError |-> FALSE, type |-> "text", text |-> text, uri |-> "",
   resources |-> << >>]
ErrorResult(text) ==
  [kind |-> "result", isError |-> TRUE, type |-> "text", text |-> text, uri |-> "",
   resources |-> << >>]
Fault(e) ==
  [kind |-> "fault", isError |-> FALSE, type |-> "", text |-> e.message, uri |-> "",
   resources |-> << >>]
ResourceList(uris) ==
  [kind |-> "resources", isError |-> FALSE, type |-> "", text |-> "", uri |-> "",
   resources |-> uris]
Contents(uri, text) ==
  [kind |-> "contents", isError |-> FALSE, type |-> "application/json", text |-> text,
   uri |-> uri, resources |-> << >>]
NoResponse ==
  [kind |-> "none", isError |-> FALSE, type |-> "", text |-> "", uri |-> "",
   resources |-> << >>]

\* ------------------------------------------------------------------- state
VARIABLES
  now,           \* Date.now()
  pc,            \* where each request's handler is suspended
  request,       \* the request each handler is serving
  upstream,      \* the upstream HTTP requests each handler has issued, in order
  jobId,         \* pollQueryResults: jobId
  startTime,     \* pollQueryResults: startTime
  waitStart,     \* when the pending setTimeout(resolve, interval) was armed
  fetches,       \* status fetches the poll loop has issued
  waits,         \* interval waits the poll loop has completed
  nonTerminal,   \* status responses that were neither 3 nor 4
  lastJob,       \* the job of the last status response
  statusErrors,  \* status fetches that failed (no response, or a non-2xx one)
  submitData,    \* response.data of the submission
  resultData,    \* response.data of the stored-result fetch
  pollResult,    \* how pollQueryResults ended
  gatewayResult, \* how the RedashClient method the handler called last ended
  response,      \* what the handler gave its caller
  queries,       \* list-resources: the ids of the queries the first listing returned
  query,         \* read-resource: the query metadata the first fetch returned
  env,           \* process.env after dotenv
  process,       \* the state of the server process
  client,        \* the configuration of the RedashClient singleton
  failure        \* what the upstream request that failed last rejected with

vars == <<now, pc, request, upstream, jobId, startTime, waitStart, fetches, waits,
          nonTerminal, lastJob, statusErrors, submitData, resultData,
          pollResult, gatewayResult, response, queries, query, env, process, client,
          failure>>

resVars == <<queries, query>>

bootVars == <<env, process, client>>

pollVars == <<jobId, startTime, waitStart, fetches, waits, nonTerminal, lastJob,
              statusErrors, submitData, resultData>>

NoData == [job |-> "", body |-> ""]

\* An upstream request: client.get / post / delete (path, data).
HttpSend(method, path, data) == [method |-> method, path |-> path, data |-> data]

\* An upstream request whose body the model does not follow.
HttpCall(method, path) == HttpSend(method, path, EmptyObject)

\* ------------------------------------------------------------ request data
\* CopyDefined that copies the fields that are truthy.
CopyTruthy(obj) ==
  [k \in {x \in DOMAIN updateQuerySchema : ~Falsy(Get(obj, x))} |-> obj[k]]

\* The copy of the fields that are not undefined, as updateQuery makes it.
CopyDefined(obj) ==
  [k \in {x \in DOMAIN updateQuerySchema : Get(obj, x) # Undefined} |-> obj[k]]

\* queryData as the updateQuery tool builds it from the parsed params.
ToolUpdateQuery(params) == CopyDefined(params)

\* requestData as RedashClient.updateQuery builds it from queryData.
ClientUpdateQuery(queryData) == CopyDefined(queryData)

\* updateData as the updateVisualization tool passes it on: the parsed params without
\* visualizationId.
ToolUpdateVisualization(params) == params

\* WithDefaults that passes the optional fields on as they are.
WithoutDefaults(obj) ==
  [name |-> Get(obj, "name"),
   data_source_id |-> Get(obj, "data_source_id"),
   query |-> Get(obj, "query"),
   description |-> Get(obj, "description"),
   options |-> Get(obj, "options"),
   schedule |-> Get(obj, "schedule"),
   tags |-> Get(obj, "tags")]

\* The object with the defaults of createQuery filled in.
WithDefaults(obj) ==
  [name |-> Get(obj, "name"),
   data_source_id |-> Get(obj, "data_source_id"),
   query |-> Get(obj, "query"),
   description |-> OrElse(Get(obj, "description"), "''"),
   options |-> OrElse(Get(obj, "options"), "{}"),
   schedule |-> OrElse(Get(obj, "schedule"), "null"),
   tags |-> OrElse(Get(obj, "tags"), "[]")]

\* queryData as the createQuery tool builds it from the parsed params.
ToolCreateQuery(params) == WithDefaults(params)

\* requestData as RedashClient.createQuery builds it from queryData.
ClientCreateQuery(queryData) == WithDefaults(queryData)

\* The JSON body of the request a create or update tool sends for the argument bag.
RequestData(tool, args) ==
  LET params == Parsed(SchemaOf(tool), args.fields) IN
    CASE tool = "create_query" -> JsonBody(ClientCreateQuery(ToolCreateQuery(params)))
      [] tool = "update_query" -> JsonBody(ClientUpdateQuery(ToolUpdateQuery(params)))
      [] tool = "update_visualization" -> JsonBody(ToolUpdateVisualization(params))
      [] OTHER -> EmptyObject

\* ------------------------------------------------------- RedashClient (Gateway)
\* The first upstream request each RedashClient method issues.
GatewayCall(tool, args) ==
  CASE tool = "list_queries" -> HttpCall("GET", "/api/queries")
    [] tool = "get_query" -> HttpCall("GET", "/api/queries/" \o NumStr(args.id))
    [] tool = "create_query" ->
         HttpSend("POST", "/api/queries", RequestData(tool, args))
    [] tool = "update_query" ->
         HttpSend("POST", "/api/queries/" \o NumStr(args.id), RequestData(tool, args))
    [] tool = "archive_query" -> HttpCall("DELETE", "/api/queries/" \o NumStr(args.id))
    [] tool = "list_data_sources" -> HttpCall("GET", "/api/data_sources")
    [] tool = "execute_query" ->
         HttpCall("POST", "/api/queries/" \o NumStr(args.id) \o "/results")
    [] tool = "list_dashboards" -> HttpCall("GET", "/api/dashboards")
    [] tool = "get_dashboard" -> HttpCall("GET", "/api/dashboards/" \o NumStr(args.id))
    [] tool = "get_visualization" ->
         HttpCall("GET", "/api/visualizations/" \o NumStr(args.id))
    [] tool = "execute_adhoc_query" -> HttpCall("POST", "/api/query_results")
    [] tool = "create_visualization" -> HttpCall("POST", "/api/visualizations")
    [] tool = "update_visualization" ->
         HttpSend("POST", "/api/visualizations/" \o NumStr(args.id),
                  RequestData(tool, args))
    [] tool = "delete_visualization" ->
         HttpCall("DELETE", "/api/visualizations/" \o NumStr(args.id))

\* The status fetch and the stored-result fetch of the poll loop.
JobStatusCall(j) == HttpCall("GET", "/api/jobs/" \o j)
QueryResultCall(id) == HttpCall("GET", "/api/query_results/" \o NumStr(id))

\* The inner catch of createQuery and updateQuery: what it throws for an axios failure.
InnerAxiosCatch(e) ==
  IF e.hasResponse
    THEN PlainError("Redash API error (" \o NumStr(e.status) \o "): "
                    \o StringifyErrorData(e))
  ELSE IF e.hasRequest
    THEN PlainError("No response received from Redash API: " \o e.message)
  ELSE e

\* What a RedashClient method other than the execute ones throws when its request fails.
GatewayCatch(tool, id, e) ==
  CASE tool = "list_queries" -> PlainError("Failed to fetch queries from Redash")
    [] tool = "get_query" ->
         PlainError("Failed to fetch query " \o NumStr(id) \o " from Redash")
    [] tool = "create_query" ->
         PlainError("Failed to create query: " \o InnerAxiosCatch(e).message)
    [] tool = "update_query" ->
         PlainError("Failed to update query " \o NumStr(id) \o ": "
                    \o InnerAxiosCatch(e).message)
    [] tool = "archive_query" ->
         PlainError("Failed to archive query " \o NumStr(id) \o ": " \o e.message)
    [] tool = "list_data_sources" ->
         PlainError("Failed to fetch data sources from Redash")
    [] tool = "list_dashboards" -> PlainError("Failed to fetch dashboards from Redash")
    [] tool = "get_dashboard" ->
         PlainError("Failed to fetch dashboard " \o NumStr(id) \o " from Redash")
    [] tool = "get_visualization" ->
         PlainError("Failed to fetch visualization " \o NumStr(id) \o " from Redash")
    [] tool = "create_visualization" -> PlainError("Failed to create visualization")
    [] tool = "update_visualization" ->
         PlainError("Failed to update visualization " \o NumStr(id))
    [] tool = "delete_visualization" ->
         PlainError("Failed to delete visualization " \o NumStr(id))

\* What a RedashClient method other than the execute ones returns for response.data = d.
GatewayReturn(tool, d) ==
  CASE tool \in {"list_queries", "list_dashboards"} -> "page(" \o d \o ")"
    [] tool = "archive_query" -> "{success:true}"
    [] tool = "delete_visualization" -> "undefined"
    [] OTHER -> d

\* ---- pollQueryResults
\* LoopContinues with <= for <.
LoopContinuesInclusive(t, start, timeout) == t - start <= timeout

\* The while condition: Date.now() - startTime < timeout.
LoopContinues(t, start, timeout) == t - start < timeout

\* PollOnStatus that also takes status 5 (cancelled) for a failure.
PollOnStatusCancelledFails(job) ==
  IF job.status = StatusCompleted
    THEN IF job.query_result_id # NoId THEN "fetchResult" ELSE "returnInline"
  ELSE IF job.status \in {StatusFailed, 5} THEN "fail"
  ELSE "wait"

\* PollOnStatus that never looks at query_result_id.
PollOnStatusInlineOnly(job) ==
  IF job.status = StatusCompleted THEN "returnInline"
  ELSE IF job.status = StatusFailed THEN "fail"
  ELSE "wait"

\* What the loop does with the job of a status response.
PollOnStatus(job) ==
  IF job.status = StatusCompleted
    THEN IF job.query_result_id # NoId THEN "fetchResult" ELSE "returnInline"
  ELSE IF job.status = StatusFailed THEN "fail"
  ELSE "wait"

\* The error thrown for a job of status 4.
PollFailedError(job) ==
  PlainError("Query execution failed: "
             \o (IF job.error # "" THEN job.error ELSE "Unknown error"))

\* PollTimeoutError whose message leaves the bound out.
PollTimeoutErrorNoBound(timeout) == PlainError("Query execution timed out")

\* The error thrown after the loop when the time is up.
PollTimeoutError(timeout) ==
  PlainError("Query execution timed out after " \o NumStr(timeout) \o "ms")

\* PollCatch without the re-throw of the loop's own error.
PollCatchWrapsAll(e, j) ==
  PlainError("Failed to poll for query results (job " \o j \o "): " \o e.message)

\* The catch inside the loop: what it throws for the error e it caught.
PollCatch(e, j) ==
  IF StartsWith(e.message, "Query execution failed:") THEN e
  ELSE IF e.isAxios THEN
    IF e.hasResponse
      THEN PlainError("Failed to poll for query results (job " \o j
                      \o "): Redash API error (" \o NumStr(e.status) \o "): "
                      \o ErrorMessageOf(e))
    ELSE IF e.hasRequest
      THEN PlainError("Failed to poll for query results (job " \o j
                      \o "): No response received from Redash API: " \o e.message)
    ELSE PlainError("Failed to poll for query results (job " \o j \o "): " \o e.message)
  ELSE PlainError("Failed to poll for query results (job " \o j \o "): " \o e.message)

\* ---- executeQuery, executeAdhocQuery
\* HasJobHandle as if (response.data): true of every response.
HasJobHandleAnyData(data) == data.body # ""

\* if (response.data.job): the submission response carries a job handle.
HasJobHandle(data) == data.job # ""

\* The catch of executeQuery: what it throws for the error e it caught.
ClientExecuteQueryCatch(e, queryId) ==
  IF e.isAxios THEN
    IF e.hasResponse
      THEN PlainError("Failed to execute query " \o NumStr(queryId)
                      \o ": Redash API error (" \o NumStr(e.status) \o "): "
                      \o ErrorMessageOf(e))
    ELSE IF e.hasRequest
      THEN PlainError("Failed to execute query " \o NumStr(queryId)
                      \o ": No response received from Redash API: " \o e.message)
    ELSE PlainError("Failed to execute query " \o NumStr(queryId) \o ": " \o e.message)
  ELSE PlainError("Failed to execute query " \o NumStr(queryId) \o ": " \o e.message)

\* The catch of executeAdhocQuery.
ClientExecuteAdhocQueryCatch(e) ==
  PlainError("Failed to execute adhoc query: " \o e.message)

\* The error an execute method throws for an error raised inside its try block.
ExecuteCatch(tool, id, e) ==
  IF tool = "execute_query" THEN ClientExecuteQueryCatch(e, id)
  ELSE ClientExecuteAdhocQueryCatch(e)

\* ------------------------------------------------------------ tool functions
\* The prefix of a tool function's error text.
ToolErrorPrefix(tool, id) ==
  CASE tool = "list_queries" -> "Error listing queries"
    [] tool = "get_query" -> "Error getting query " \o NumStr(id)
    [] tool = "create_query" -> "Error creating query"
    [] tool = "update_query" -> "Error updating query " \o NumStr(id)
    [] tool = "archive_query" -> "Error archiving query " \o NumStr(id)
    [] tool = "list_data_sources" -> "Error listing data sources"
    [] tool = "execute_query" -> "Error executing query " \o NumStr(id)
    [] tool = "list_dashboards" -> "Error listing dashboards"
    [] tool = "get_dashboard" -> "Error getting dashboard " \o NumStr(id)
    [] tool = "get_visualization" -> "Error getting visualization " \o NumStr(id)
    [] tool = "execute_adhoc_query" -> "Error executing adhoc query"
    [] tool = "create_visualization" -> "Error creating visualization"
    [] tool = "update_visualization" -> "Error updating visualization " \o NumStr(id)
    [] tool = "delete_visualization" -> "Error deleting visualization " \o NumStr(id)

\* ToolCatch that leaves the error flag out.
ToolCatchUnflagged(tool, id, e) ==
  TextResult(ToolErrorPrefix(tool, id) \o ": " \o e.message)

\* The catch of a tool function: the Gateway's error becomes an error-flagged result.
ToolCatch(tool, id, e) == ErrorResult(ToolErrorPrefix(tool, id) \o ": " \o e.message)

\* The success path of a tool function for the Gateway's return value v.
ToolReturn(tool, id, v) ==
  IF tool = "delete_visualization"
    THEN TextResult("Visualization " \o NumStr(id) \o " deleted successfully")
  ELSE TextResult(Stringify(v))

\* -------------------------------------------------------- call-tool handler
\* What schema.parse throws.
ZodError == PlainError("Required")

\* Route that also accepts the hyphenated spelling list-queries.
RouteHyphenated(name) ==
  IF name \in EarlyValidated \cup SwitchCases THEN name
  ELSE IF name = "list-queries" THEN "list_queries"
  ELSE ""

\* Route of a handler that has the switch alone, without the early branches.
RouteSwitchOnly(name) == IF name \in SwitchCases THEN name ELSE ""

\* The tool function the handler's if/else-if and switch route name to ("" for none).
Route(name) == IF name \in EarlyValidated \cup SwitchCases THEN name ELSE ""

\* The default case of the switch.
UnknownTool(name) == ErrorResult("Unknown tool: " \o name)

\* The inner catch of the early create_query / update_query branches.
EarlyValidationCatch(name, e) ==
  ErrorResult("Invalid parameters for " \o name \o ": " \o e.message)

\* CallToolCatch that logs and re-throws.
CallToolCatchRethrows(name, e) == Fault(e)

\* The outer catch of the handler.
CallToolCatch(name, e) ==
  ErrorResult("Error executing tool " \o name \o ": " \o e.message)

\* The handler's answer when schema.parse throws for the routed tool.
ValidationFailure(tool, e) ==
  IF tool \in EarlyValidated THEN EarlyValidationCatch(tool, e)
  ELSE CallToolCatch(tool, e)

\* ------------------------------------------------------------- resources
\* What the upstream may list: the ids of the queries and of the dashboards of a page.
QueryLists == {<< >>, <<42>>, <<42, 7>>}
DashboardLists == {<< >>, <<5>>, <<0, 100>>}

\* response.data of GET /api/queries/{id}: the query's metadata.
QueryRecords == {"query-42"}

\* The URIs a caller may ask to read.
ResourceUris ==
  {"redash://query/42", "redash://dashboard/42", "redash://dashboard/007",
   "redash://widget/42", "redash://query/abc", "redash://query/42/extra",
   "redash://query/", "redash://query/-1", "query/42", "REDASH://QUERY/42"}

\* ResourceUri with the plural of the type, as the upstream's paths have it.
ResourceUriPlural(type, id) == "redash://" \o type \o "s/" \o NumStr(id)

\* `redash://query/${query.id}` and `redash://dashboard/${dashboard.id}`
ResourceUri(type, id) == "redash://" \o type \o "/" \o NumStr(id)

\* resources: [...queryResources, ...dashboardResources]
ResourcesOf(queryIds, dashboardIds) ==
  [i \in 1..Len(queryIds) |-> ResourceUri("query", queryIds[i])]
    \o [i \in 1..Len(dashboardIds) |-> ResourceUri("dashboard", dashboardIds[i])]

\* /^\d+$/
AllDigits(s) ==
  /\ Len(s) > 0
  /\ \A i \in 1..Len(s) : \E n \in 1..10 : SubSeq(s, i, i) = Digits[n]

RECURSIVE ParseInt(_)
\* parseInt(s, 10) of a string of digits.
ParseInt(s) ==
  IF Len(s) = 0 THEN 0
  ELSE 10 * ParseInt(SubSeq(s, 1, Len(s) - 1))
         + ((CHOOSE n \in 1..10 : Digits[n] = SubSeq(s, Len(s), Len(s))) - 1)

NoMatch == [ok |-> FALSE, type |-> "", id |-> ""]

\* MatchResourceUri that takes any text after the slash for the id.
MatchResourceUriLoose(uri) ==
  LET hits == {t \in {"query", "dashboard"} : StartsWith(uri, "redash://" \o t \o "/")}
  IN IF hits = {} THEN NoMatch
     ELSE LET t == CHOOSE x \in hits : TRUE
          IN [ok |-> TRUE, type |-> t,
              id |-> IF AllDigits(SubSeq(uri, Len("redash://" \o t \o "/") + 1, Len(uri)))
                       THEN SubSeq(uri, Len("redash://" \o t \o "/") + 1, Len(uri))
                       ELSE "0"]

\* uri.match(/^redash:\/\/(query|dashboard)\/(\d+)$/)
MatchResourceUri(uri) ==
  LET rest(t) == SubSeq(uri, Len("redash://" \o t \o "/") + 1, Len(uri))
      hits == {t \in {"query", "dashboard"} :
                 StartsWith(uri, "redash://" \o t \o "/") /\ AllDigits(rest(t))}
  IN IF hits = {} THEN NoMatch
     ELSE LET t == CHOOSE x \in hits : TRUE
          IN [ok |-> TRUE, type |-> t, id |-> rest(t)]

InvalidUri(uri) == PlainError("Invalid resource URI: " \o uri)

\* StringifyQueryAndResult that leaves the query out.
StringifyResultOnly(q, result) == "json(" \o result \o ")"

\* JSON.stringify({ query: query, result: result }, null, 2)
StringifyQueryAndResult(q, result) ==
  "json({query:" \o q \o ",result:" \o result \o "})"

\* A page of ids as the value a listing returns.
PageOf(ids) == "page(" \o NumStr(Len(ids)) \o ")"

\* ---------------------------------------------------------------- startup
\* The environments the process may be started in: each required variable unset,
\* empty or set; REDASH_TIMEOUT is left unset.
Envs ==
  [REDASH_URL : {Undefined, "''", "'https://redash.example.com'"},
   REDASH_API_KEY : {Undefined, "''", "'key'"},
   REDASH_TIMEOUT : {Undefined}]

\* The script node is started with: cli.js (the bin of the package) or index.js.
Entries == {"cli", "index"}

requiredVars == {"REDASH_URL", "REDASH_API_KEY"}

\* cli.ts: requiredVars.filter(varName => !process.env[varName])
missingVars(e) == {v \in requiredVars : Falsy(e[v])}

\* The text of a string literal.
Unquote(tok) == SubSeq(tok, 2, Len(tok) - 1)

NoClient == [baseUrl |-> "", apiKey |-> "", timeout |-> 0]

\* ConstructorThrows with && for ||.
ConstructorThrowsBothMissing(e) ==
  Falsy(OrElse(e.REDASH_URL, "''")) /\ Falsy(OrElse(e.REDASH_API_KEY, "''"))

\* The constructor of RedashClient throws: !this.baseUrl || !this.apiKey.
ConstructorThrows(e) ==
  Falsy(OrElse(e.REDASH_URL, "''")) \/ Falsy(OrElse(e.REDASH_API_KEY, "''"))

\* The RedashClient the constructor builds.
NewRedashClient(e) ==
  [baseUrl |-> OrElse(e.REDASH_URL, "''"),
   apiKey |-> OrElse(e.REDASH_API_KEY, "''"),
   timeout |-> ParseInt(Unquote(OrElse(e.REDASH_TIMEOUT, "'30000'")))]

\* The process has ended.
Exited(p) == StartsWith(p, "exit")

\* ----------------------------------------------------------------- actions
InPollLoop(r) == pc[r] \in {"awaitStatus", "waiting", "awaitResult"}

Init ==
  /\ now = 0
  /\ pc = [r \in Req |-> "idle"]
  /\ request = [r \in Req |-> NoRequest]
  /\ upstream = [r \in Req |-> << >>]
  /\ jobId = [r \in Req |-> ""]
  /\ startTime = [r \in Req |-> 0]
  /\ waitStart = [r \in Req |-> 0]
  /\ fetches = [r \in Req |-> 0]
  /\ waits = [r \in Req |-> 0]
  /\ nonTerminal = [r \in Req |-> 0]
  /\ lastJob = [r \in Req |-> NoJob]
  /\ statusErrors = [r \in Req |-> 0]
  /\ submitData = [r \in Req |-> NoData]
  /\ resultData = [r \in Req |-> ""]
  /\ pollResult = [r \in Req |-> NoOutcome]
  /\ gatewayResult = [r \in Req |-> NoOutcome]
  /\ response = [r \in Req |-> NoResponse]
  /\ queries = [r \in Req |-> << >>]
  /\ query = [r \in Req |-> ""]
  /\ env \in Envs
  /\ process = "starting"
  /\ client = NoClient
  /\ failure = [r \in Req |-> NoFailure]

\* The handler of r answers with resp; the RedashClient method ended as gw.
Answer(r, gw, resp) ==
  /\ gatewayResult' = [gatewayResult EXCEPT ![r] = gw]
  /\ response' = [response EXCEPT ![r] = resp]
  /\ pc' = [pc EXCEPT ![r] = "done"]

\* ReadResourceCatch that swallows the error and returns empty contents.
ReadResourceCatchEmpty(uri, e) == Contents(uri, "")

\* The catch of the read-resource handler: it logs the error and throws it again.
ReadResourceCatch(uri, e) == Fault(e)

\* The catch of the list-resources handler, taken as throwing the error again.
ListResourcesCatchRethrows(e) == Fault(e)

\* The catch of the list-resources handler: it logs the error and returns no resources.
ListResourcesCatch(e) == ResourceList(<< >>)

\* r is a read-resource request.
Reading(r) == request[r].kind = "read_resource"

\* resourceId of the read-resource handler.
ResourceId(r) == ParseInt(MatchResourceUri(request[r].uri).id)

\* The execute method that serves r, and the id it is called with.
ExecTool(r) == IF Reading(r) THEN "execute_query" ELSE Route(request[r].name)
TargetId(r) == IF Reading(r) THEN ResourceId(r) ELSE request[r].args.id

\* The argument bag that carries the id alone.
IdArgs(id) == [valid |-> TRUE, id |-> id, fields |-> EmptyObject]

\* The execute method of r returns v: the tool wraps it, the read-resource handler
\* puts it next to the query it fetched first.
ExecuteReturns(r, v) ==
  Answer(r, Returned(v),
         IF Reading(r)
           THEN Contents(request[r].uri, StringifyQueryAndResult(query[r], v))
           ELSE ToolReturn(ExecTool(r), TargetId(r), v))

\* The try block of the execute method of r raises e: the method's catch takes it,
\* then the tool's catch or the read-resource handler's.
ExecuteThrows(r, e) ==
  LET err == ExecuteCatch(ExecTool(r), TargetId(r), e)
  IN Answer(r, Threw(err),
            IF Reading(r) THEN ReadResourceCatch(request[r].uri, err)
            ELSE ToolCatch(ExecTool(r), TargetId(r), err))

\* pollQueryResults of r returns v: the execute method returns it.
PollReturns(r, v) ==
  /\ pollResult' = [pollResult EXCEPT ![r] = Returned(v)]
  /\ ExecuteReturns(r, v)

\* pollQueryResults of r throws e: the execute method's catch takes it.
PollThrows(r, e) ==
  /\ pollResult' = [pollResult EXCEPT ![r] = Threw(e)]
  /\ ExecuteThrows(r, e)

\* The head of the poll loop of r for job j, the loop having started at start:
\* another status fetch, or the timeout error after the loop.
LoopHead(r, j, start) ==
  IF LoopContinues(now, start, DefaultTimeout)
    THEN /\ upstream' = [upstream EXCEPT ![r] = Append(@, JobStatusCall(j))]
         /\ fetches' = [fetches EXCEPT ![r] = @ + 1]
         /\ pc' = [pc EXCEPT ![r] = "awaitStatus"]
         /\ UNCHANGED <<pollResult, gatewayResult, response>>
    ELSE /\ PollThrows(r, PollTimeoutError(DefaultTimeout))
         /\ UNCHANGED <<upstream, fetches>>

\* CallToolRequestSchema handler, up to its first await.
CallTool(r, name, args) ==
  /\ pc[r] = "idle"
  /\ process = "running"
  /\ UNCHANGED failure
  /\ UNCHANGED <<bootVars, resVars>>
  /\ request' = [request EXCEPT ![r] = [kind |-> "call_tool", name |-> name, uri |-> "",
                                       args |-> args]]
  /\ LET tool == Route(name) IN
       IF tool = ""
         THEN Answer(r, NoOutcome, UnknownTool(name)) /\ UNCHANGED upstream
       ELSE IF ~ParseOk(tool, args)
         THEN Answer(r, NoOutcome, ValidationFailure(tool, ZodError)) /\ UNCHANGED upstream
       ELSE /\ upstream' = [upstream EXCEPT ![r] = Append(@, GatewayCall(tool, args))]
            /\ pc' = [pc EXCEPT ![r] =
                        IF tool \in ExecuteTools THEN "awaitSubmit" ELSE "awaitUpstream"]
            /\ UNCHANGED <<gatewayResult, response>>
  /\ UNCHANGED <<now, pollVars, pollResult>>

\* The single request of a method other than the execute ones succeeds with data d.
UpstreamOk(r, d) ==
  /\ pc[r] = "awaitUpstream"
  /\ UNCHANGED failure
  /\ UNCHANGED <<bootVars, resVars>>
  /\ LET tool == Route(request[r].name)
         v == GatewayReturn(tool, d)
     IN Answer(r, Returned(v), ToolReturn(tool, request[r].args.id, v))
  /\ UNCHANGED <<now, request, upstream, pollVars, pollResult>>

\* UpstreamFail of a method that sends its request once more after the first failure.
UpstreamFailRetried(r, e) ==
  /\ pc[r] = "awaitUpstream"
  /\ failure' = [failure EXCEPT ![r] = e]
  /\ UNCHANGED <<bootVars, resVars>>
  /\ LET tool == Route(request[r].name)
         id == request[r].args.id
     IN IF Len(upstream[r]) = 1
          THEN /\ upstream' = [upstream EXCEPT ![r] = Append(@, upstream[r][1])]
               /\ UNCHANGED <<pc, gatewayResult, response>>
          ELSE /\ Answer(r, Threw(GatewayCatch(tool, id, e)),
                         ToolCatch(tool, id, GatewayCatch(tool, id, e)))
               /\ UNCHANGED upstream
  /\ UNCHANGED <<now, request, pollVars, pollResult>>

\* The single request of a method other than the execute ones fails with e.
UpstreamFail(r, e) ==
  /\ pc[r] = "awaitUpstream"
  /\ failure' = [failure EXCEPT ![r] = e]
  /\ UNCHANGED <<bootVars, resVars>>
  /\ LET tool == Route(request[r].name)
         id == request[r].args.id
     IN Answer(r, Threw(GatewayCatch(tool, id, e)),
               ToolCatch(tool, id, GatewayCatch(tool, id, e)))
  /\ UNCHANGED <<now, request, upstream, pollVars, pollResult>>

\* SubmitOk of a client that keeps the job id and the start time of the poll loop in
\* fields of the singleton: the loop that starts last sets them for all.
SubmitOkSharedFields(r, data) ==
  /\ pc[r] = "awaitSubmit"
  /\ UNCHANGED failure
  /\ UNCHANGED <<bootVars, resVars>>
  /\ submitData' = [submitData EXCEPT ![r] = data]
  /\ IF HasJobHandle(data)
       THEN /\ jobId' = [q \in Req |-> IF q = r \/ jobId[q] # "" THEN data.job ELSE ""]
            /\ startTime' = [q \in Req |-> IF q = r \/ jobId[q] # "" THEN now
                                            ELSE startTime[q]]
            /\ LoopHead(r, data.job, now)
       ELSE /\ ExecuteReturns(r, data.body)
            /\ UNCHANGED <<upstream, jobId, startTime, fetches, pollResult>>
  /\ UNCHANGED <<now, request, waitStart, waits, nonTerminal, lastJob, statusErrors,
                 resultData>>

\* The submission of executeQuery / executeAdhocQuery succeeds with response.data = data.
SubmitOk(r, data) ==
  /\ pc[r] = "awaitSubmit"
  /\ UNCHANGED failure
  /\ UNCHANGED <<bootVars, resVars>>
  /\ submitData' = [submitData EXCEPT ![r] = data]
  /\ IF HasJobHandle(data)
       THEN /\ jobId' = [jobId EXCEPT ![r] = data.job]
            /\ startTime' = [startTime EXCEPT ![r] = now]
            /\ LoopHead(r, data.job, now)
       ELSE /\ ExecuteReturns(r, data.body)
            /\ UNCHANGED <<upstream, jobId, startTime, fetches, pollResult>>
  /\ UNCHANGED <<now, request, waitStart, waits, nonTerminal, lastJob, statusErrors,
                 resultData>>

\* The submission fails with e.
SubmitFail(r, e) ==
  /\ pc[r] = "awaitSubmit"
  /\ failure' = [failure EXCEPT ![r] = e]
  /\ UNCHANGED <<bootVars, resVars>>
  /\ ExecuteThrows(r, e)
  /\ UNCHANGED <<now, request, upstream, pollVars, pollResult>>

\* A status fetch of the poll loop succeeds with response.data.job = job.
StatusOk(r, job) ==
  /\ pc[r] = "awaitStatus"
  /\ UNCHANGED failure
  /\ UNCHANGED <<bootVars, resVars>>
  /\ lastJob' = [lastJob EXCEPT ![r] = job]
  /\ LET todo == PollOnStatus(job) IN
       CASE todo = "fetchResult" ->
              /\ upstream' = [upstream EXCEPT
                                ![r] = Append(@, QueryResultCall(job.query_result_id))]
              /\ pc' = [pc EXCEPT ![r] = "awaitResult"]
              /\ UNCHANGED <<waitStart, nonTerminal, pollResult, gatewayResult, response>>
         [] todo = "returnInline" ->
              /\ PollReturns(r, job.result)
              /\ UNCHANGED <<upstream, waitStart, nonTerminal>>
         [] todo = "fail" ->
              /\ PollThrows(r, PollCatch(PollFailedError(job), jobId[r]))
              /\ UNCHANGED <<upstream, waitStart, nonTerminal>>
         [] OTHER ->
              /\ waitStart' = [waitStart EXCEPT ![r] = now]
              /\ nonTerminal' = [nonTerminal EXCEPT ![r] = @ + 1]
              /\ pc' = [pc EXCEPT ![r] = "waiting"]
              /\ UNCHANGED <<upstream, pollResult, gatewayResult, response>>
  /\ UNCHANGED <<now, request, jobId, startTime, fetches, waits, statusErrors,
                 submitData, resultData>>

\* StatusFail whose catch logs the error and lets the loop go on to the next wait.
StatusFailRetried(r, e) ==
  /\ pc[r] = "awaitStatus"
  /\ failure' = [failure EXCEPT ![r] = e]
  /\ UNCHANGED <<bootVars, resVars>>
  /\ statusErrors' = [statusErrors EXCEPT ![r] = @ + 1]
  /\ waitStart' = [waitStart EXCEPT ![r] = now]
  /\ nonTerminal' = [nonTerminal EXCEPT ![r] = @ + 1]
  /\ pc' = [pc EXCEPT ![r] = "waiting"]
  /\ UNCHANGED <<now, request, upstream, jobId, startTime, fetches, waits, lastJob,
                 submitData, resultData, pollResult, gatewayResult, response>>

\* A status fetch of the poll loop fails with e.
StatusFail(r, e) ==
  /\ pc[r] = "awaitStatus"
  /\ failure' = [failure EXCEPT ![r] = e]
  /\ UNCHANGED <<bootVars, resVars>>
  /\ statusErrors' = [statusErrors EXCEPT ![r] = @ + 1]
  /\ PollThrows(r, PollCatch(e, jobId[r]))
  /\ UNCHANGED <<now, request, upstream, jobId, startTime, waitStart, fetches, waits,
                 nonTerminal, lastJob, submitData, resultData>>

\* WaitDone with setTimeout(resolve(), interval): the promise resolves at once.
WaitDoneAtOnce(r) ==
  /\ pc[r] = "waiting"
  /\ UNCHANGED failure
  /\ UNCHANGED <<bootVars, resVars>>
  /\ waits' = [waits EXCEPT ![r] = @ + 1]
  /\ waitStart' = [waitStart EXCEPT ![r] = 0]
  /\ LoopHead(r, jobId[r], startTime[r])
  /\ UNCHANGED <<now, request, jobId, startTime, nonTerminal, lastJob, statusErrors,
                 submitData, resultData>>

\* WaitDone of a wait whose promise is never resolved: setTimeout is armed without
\* the resolve callback.
WaitDoneNeverResolves(r) ==
  /\ pc[r] = "waiting"
  /\ FALSE
  /\ UNCHANGED vars

\* The interval timer of the poll loop fires; the loop condition is evaluated again.
WaitDone(r) ==
  /\ pc[r] = "waiting"
  /\ UNCHANGED failure
  /\ UNCHANGED <<bootVars, resVars>>
  /\ now - waitStart[r] >= DefaultInterval
  /\ waits' = [waits EXCEPT ![r] = @ + 1]
  /\ waitStart' = [waitStart EXCEPT ![r] = 0]
  /\ LoopHead(r, jobId[r], startTime[r])
  /\ UNCHANGED <<now, request, jobId, startTime, nonTerminal, lastJob, statusErrors,
                 submitData, resultData>>

\* The fetch of the stored query result succeeds with response.data = d.
ResultOk(r, d) ==
  /\ pc[r] = "awaitResult"
  /\ UNCHANGED failure
  /\ UNCHANGED <<bootVars, resVars>>
  /\ resultData' = [resultData EXCEPT ![r] = d]
  /\ PollReturns(r, d)
  /\ UNCHANGED <<now, request, upstream, jobId, startTime, waitStart, fetches, waits,
                 nonTerminal, lastJob, statusErrors, submitData>>

\* The fetch of the stored query result fails with e.
ResultFail(r, e) ==
  /\ pc[r] = "awaitResult"
  /\ failure' = [failure EXCEPT ![r] = e]
  /\ UNCHANGED <<bootVars, resVars>>
  /\ PollThrows(r, PollCatch(e, jobId[r]))
  /\ UNCHANGED <<now, request, upstream, pollVars>>

\* ---- list-resources
\* ListResourcesRequestSchema handler, up to its first await: getQueries(1, 100).
ListResources(r) ==
  /\ pc[r] = "idle"
  /\ process = "running"
  /\ request' = [request EXCEPT ![r] = [NoRequest EXCEPT !.kind = "list_resources"]]
  /\ upstream' = [upstream EXCEPT
                    ![r] = Append(@, GatewayCall("list_queries", NoRequest.args))]
  /\ pc' = [pc EXCEPT ![r] = "awaitListQueries"]
  /\ UNCHANGED <<now, pollVars, pollResult, gatewayResult, response, bootVars, resVars,
                 failure>>

\* getQueries returns the queries with these ids; getDashboards(1, 100) is next.
ListQueriesOk(r, ids) ==
  /\ pc[r] = "awaitListQueries"
  /\ queries' = [queries EXCEPT ![r] = ids]
  /\ upstream' = [upstream EXCEPT
                    ![r] = Append(@, GatewayCall("list_dashboards", NoRequest.args))]
  /\ pc' = [pc EXCEPT ![r] = "awaitListDashboards"]
  /\ UNCHANGED <<now, request, pollVars, pollResult, gatewayResult, response, bootVars,
                 query, failure>>

\* The request of getQueries fails: the handler's catch answers.
ListQueriesFail(r, e) ==
  /\ pc[r] = "awaitListQueries"
  /\ failure' = [failure EXCEPT ![r] = e]
  /\ LET err == GatewayCatch("list_queries", NoId, e)
     IN Answer(r, Threw(err), ListResourcesCatch(err))
  /\ UNCHANGED <<now, request, upstream, pollVars, pollResult, bootVars, resVars>>

\* getDashboards returns the dashboards with these ids: the handler returns both lists.
ListDashboardsOk(r, ids) ==
  /\ pc[r] = "awaitListDashboards"
  /\ Answer(r, Returned(PageOf(ids)), ResourceList(ResourcesOf(queries[r], ids)))
  /\ UNCHANGED <<now, request, upstream, pollVars, pollResult, bootVars, resVars,
                 failure>>

\* ListDashboardsFail of a handler with a try around each listing: the queries it
\* fetched are returned when the dashboards cannot be.
ListDashboardsFailPartial(r, e) ==
  /\ pc[r] = "awaitListDashboards"
  /\ failure' = [failure EXCEPT ![r] = e]
  /\ LET err == GatewayCatch("list_dashboards", NoId, e)
     IN Answer(r, Threw(err), ResourceList(ResourcesOf(queries[r], << >>)))
  /\ UNCHANGED <<now, request, upstream, pollVars, pollResult, bootVars, resVars>>

\* The request of getDashboards fails: the handler's catch answers.
ListDashboardsFail(r, e) ==
  /\ pc[r] = "awaitListDashboards"
  /\ failure' = [failure EXCEPT ![r] = e]
  /\ LET err == GatewayCatch("list_dashboards", NoId, e)
     IN Answer(r, Threw(err), ListResourcesCatch(err))
  /\ UNCHANGED <<now, request, upstream, pollVars, pollResult, bootVars, resVars>>

\* ---- read-resource
\* The first request the read-resource handler issues for a resource.
ReadCall(type, id) ==
  IF type = "query" THEN GatewayCall("get_query", IdArgs(id))
  ELSE GatewayCall("get_dashboard", IdArgs(id))

\* ReadThrows in a process that does not outlive the rejection of a handler.
ReadThrowsAndExits(r, uri, gw, e) ==
  /\ Answer(r, gw, ReadResourceCatch(uri, e))
  /\ process' = "exit-read"
  /\ UNCHANGED <<env, client>>

\* The read-resource handler of r for uri rejects with e; the RedashClient method
\* ended as gw.
\* Nothing in the handler ends the process.
ReadThrows(r, uri, gw, e) ==
  /\ Answer(r, gw, ReadResourceCatch(uri, e))
  /\ UNCHANGED bootVars

\* ReadResourceRequestSchema handler, up to its first await.
ReadResource(r, uri) ==
  /\ pc[r] = "idle"
  /\ process = "running"
  /\ request' = [request EXCEPT
                   ![r] = [NoRequest EXCEPT !.kind = "read_resource", !.uri = uri]]
  /\ LET match == MatchResourceUri(uri) IN
       IF ~match.ok
         THEN ReadThrows(r, uri, NoOutcome, InvalidUri(uri)) /\ UNCHANGED upstream
       ELSE /\ upstream' = [upstream EXCEPT
                              ![r] = Append(@, ReadCall(match.type, ParseInt(match.id)))]
            /\ pc' = [pc EXCEPT ![r] = IF match.type = "query" THEN "awaitReadQuery"
                                       ELSE "awaitReadDashboard"]
            /\ UNCHANGED <<gatewayResult, response, bootVars>>
  /\ UNCHANGED <<now, pollVars, pollResult, resVars, failure>>

\* getQuery returns the query d; executeQuery(resourceId) is next.
ReadQueryOk(r, d) ==
  /\ pc[r] = "awaitReadQuery"
  /\ query' = [query EXCEPT ![r] = d]
  /\ upstream' = [upstream EXCEPT
                    ![r] = Append(@, GatewayCall("execute_query", IdArgs(ResourceId(r))))]
  /\ pc' = [pc EXCEPT ![r] = "awaitSubmit"]
  /\ UNCHANGED <<now, request, pollVars, pollResult, gatewayResult, response, bootVars,
                 queries, failure>>

\* The request of getQuery fails.
ReadQueryFail(r, e) ==
  /\ pc[r] = "awaitReadQuery"
  /\ failure' = [failure EXCEPT ![r] = e]
  /\ LET err == GatewayCatch("get_query", ResourceId(r), e)
     IN ReadThrows(r, request[r].uri, Threw(err), err)
  /\ UNCHANGED <<now, request, upstream, pollVars, pollResult, resVars>>

\* getDashboard returns the dashboard d.
ReadDashboardOk(r, d) ==
  /\ pc[r] = "awaitReadDashboard"
  /\ Answer(r, Returned(d), Contents(request[r].uri, Stringify(d)))
  /\ UNCHANGED <<now, request, upstream, pollVars, pollResult, bootVars, resVars,
                 failure>>

\* The request of getDashboard fails.
ReadDashboardFail(r, e) ==
  /\ pc[r] = "awaitReadDashboard"
  /\ failure' = [failure EXCEPT ![r] = e]
  /\ LET err == GatewayCatch("get_dashboard", ResourceId(r), e)
     IN ReadThrows(r, request[r].uri, Threw(err), err)
  /\ UNCHANGED <<now, request, upstream, pollVars, pollResult, resVars>>

\* ---- startup
reqVars == <<now, pc, request, upstream, pollVars, pollResult, gatewayResult, response,
             resVars, failure>>

\* node runs the entry script up to the await of server.connect: cli.ts checks the
\* required variables, the import of redashClient constructs the singleton, main()
\* starts to attach the transport.  (A build that evaluates the import of index.js
\* before the body of cli.ts runs the constructor first: the outcome of the entry
\* index.)
Launch(entry) ==
  /\ process = "starting"
  /\ IF entry = "cli" /\ missingVars(env) # {}
       THEN process' = "exit-cli" /\ UNCHANGED client
     ELSE IF ConstructorThrows(env)
       THEN process' = "exit-constructor" /\ UNCHANGED client
     ELSE process' = "connecting" /\ client' = NewRedashClient(env)
  /\ UNCHANGED <<env, reqVars>>

\* server.connect(transport) resolves: the server takes requests.
ConnectOk ==
  /\ process = "connecting"
  /\ process' = "running"
  /\ UNCHANGED <<env, client, reqVars>>

\* server.connect(transport) rejects: main's catch calls process.exit(1).
ConnectFail ==
  /\ process = "connecting"
  /\ process' = "exit-connect"
  /\ UNCHANGED <<env, client, reqVars>>

\* The transport delivers the answer of r; the server is ready for the next request.
\* Only differences of Date.now() are read, so the clock is re-based when no request
\* that entered a poll loop is left.
Respond(r) ==
  /\ pc[r] = "done"
  /\ pc' = [pc EXCEPT ![r] = "idle"]
  /\ request' = [request EXCEPT ![r] = NoRequest]
  /\ upstream' = [upstream EXCEPT ![r] = << >>]
  /\ jobId' = [jobId EXCEPT ![r] = ""]
  /\ startTime' = [startTime EXCEPT ![r] = 0]
  /\ waitStart' = [waitStart EXCEPT ![r] = 0]
  /\ fetches' = [fetches EXCEPT ![r] = 0]
  /\ waits' = [waits EXCEPT ![r] = 0]
  /\ nonTerminal' = [nonTerminal EXCEPT ![r] = 0]
  /\ lastJob' = [lastJob EXCEPT ![r] = NoJob]
  /\ statusErrors' = [statusErrors EXCEPT ![r] = 0]
  /\ submitData' = [submitData EXCEPT ![r] = NoData]
  /\ resultData' = [resultData EXCEPT ![r] = ""]
  /\ pollResult' = [pollResult EXCEPT ![r] = NoOutcome]
  /\ gatewayResult' = [gatewayResult EXCEPT ![r] = NoOutcome]
  /\ response' = [response EXCEPT ![r] = NoResponse]
  /\ queries' = [queries EXCEPT ![r] = << >>]
  /\ query' = [query EXCEPT ![r] = ""]
  /\ failure' = [failure EXCEPT ![r] = NoFailure]
  /\ UNCHANGED bootVars
  /\ now' = IF \E q \in Req \ {r} : jobId[q] # "" THEN now ELSE 0

\* Time passes while a poll loop is running; a timer that is due fires first.  The
\* clock stops at MaxTime, but not before an armed timer is due.
Tick ==
  /\ \E r \in Req : InPollLoop(r)
  /\ \A r \in Req : pc[r] = "waiting" => now - waitStart[r] < DefaultInterval
  /\ now < MaxTime \/ \E r \in Req : pc[r] = "waiting"
  /\ now' = now + TickMs
  /\ UNCHANGED <<pc, request, upstream, pollVars, pollResult, gatewayResult, response>>
  /\ UNCHANGED <<bootVars, resVars, failure>>

\* What the upstream may answer to a submission.
SubmitReplies(r) ==
  {[job |-> "", body |-> p] : p \in Payloads}
    \cup {[job |-> JobIdOf(r), body |-> "job"]}

\* The names a caller may send r: a handler that is running takes no second request.
CallableNames(r) == IF pc[r] = "idle" THEN ToolNames ELSE {}

Step(r) ==
  \/ \E name \in CallableNames(r) : \E args \in ArgBagsOf(name) : CallTool(r, name, args)
  \/ \E d \in Payloads : UpstreamOk(r, d)
  \/ \E e \in AxiosFailures : UpstreamFail(r, e)
  \/ \E data \in SubmitReplies(r) : SubmitOk(r, data)
  \/ \E e \in AxiosFailures : SubmitFail(r, e)
  \/ \E job \in Jobs : StatusOk(r, job)
  \/ \E e \in AxiosFailures : StatusFail(r, e)
  \/ WaitDone(r)
  \/ \E d \in Payloads : ResultOk(r, d)
  \/ \E e \in AxiosFailures : ResultFail(r, e)
  \/ ListResources(r)
  \/ \E ids \in QueryLists : ListQueriesOk(r, ids)
  \/ \E e \in AxiosFailures : ListQueriesFail(r, e)
  \/ \E ids \in DashboardLists : ListDashboardsOk(r, ids)
  \/ \E e \in AxiosFailures : ListDashboardsFail(r, e)
  \/ \E uri \in ResourceUris : ReadResource(r, uri)
  \/ \E d \in QueryRecords : ReadQueryOk(r, d)
  \/ \E e \in AxiosFailures : ReadQueryFail(r, e)
  \/ \E d \in Payloads : ReadDashboardOk(r, d)
  \/ \E e \in AxiosFailures : ReadDashboardFail(r, e)
  \/ Respond(r)

Startup == (\E entry \in Entries : Launch(entry)) \/ ConnectOk \/ ConnectFail

\* One request at a time.
Next == Startup \/ Step("r1") \/ Tick

Spec == Init /\ [][Next]_vars

\* ---- scheduling
\* The upstream answers the request the poll loop of r awaits, or the request fails.
PollRequestEnds(r) ==
  \/ \E job \in Jobs : StatusOk(r, job)
  \/ \E e \in AxiosFailures : StatusFail(r, e)
  \/ \E d \in Payloads : ResultOk(r, d)
  \/ \E e \in AxiosFailures : ResultFail(r, e)

\* Every upstream request of a poll loop ends (axios gives up after the client's
\* timeout at the latest), the event loop fires a timer that is due, and time advances.
Fairness ==
  /\ WF_vars(PollRequestEnds("r1"))
  /\ WF_vars(WaitDone("r1"))
  /\ WF_vars(Tick)

\* ---- two requests in flight
\* Time passes in long steps.
LongTick ==
  /\ \E r \in Req : InPollLoop(r)
  /\ \A r \in Req : pc[r] = "waiting" => now - waitStart[r] < DefaultInterval
  /\ now < LongMaxTime
  /\ now' = now + LongTickMs
  /\ UNCHANGED <<pc, request, upstream, pollVars, pollResult, gatewayResult, response>>
  /\ UNCHANGED <<bootVars, resVars, failure>>

\* The status responses followed when two requests run: a running job, a completed one
\* with an inline result and with a stored one, a failed one.
ConcurrentJobs == {j \in Jobs : j.status \in {2, 3, 4} /\ j.error = "" /\ j.result # "rows-old"}

\* The failures followed when two requests run.
ConcurrentFailures == {e \in AxiosFailures : e.status = 502}

\* A step of the execute call r serves, the upstream answering status fetches with one
\* of jobs and failing requests with one of failures.
ExecuteSteps(r, jobs, failures) ==
  \/ \E name \in CallableNames(r) \cap ExecuteTools : CallTool(r, name, IdArgs(42))
  \/ \E data \in SubmitReplies(r) : SubmitOk(r, data)
  \/ \E e \in failures : SubmitFail(r, e)
  \/ \E job \in jobs : StatusOk(r, job)
  \/ \E e \in failures : StatusFail(r, e)
  \/ WaitDone(r)
  \/ \E d \in Payloads : ResultOk(r, d)
  \/ \E e \in failures : ResultFail(r, e)
  \/ Respond(r)

ExecuteStep(r) == ExecuteSteps(r, ConcurrentJobs, ConcurrentFailures)

\* The handlers of two requests interleave at their awaits.
NextConcurrent == Startup \/ (\E r \in Req : ExecuteStep(r)) \/ LongTick

SpecConcurrent == Init /\ [][NextConcurrent]_vars

\* ---- one execute call under fair scheduling
NextPolling == Startup \/ ExecuteSteps("r1", Jobs, AxiosFailures) \/ Tick

SpecPolling == Init /\ [][NextPolling]_vars /\ Fairness

\* ------------------------------------------------------------- properties
Last(q) == q[Len(q)]

\* How many times request r issued the upstream call c.
CountCalls(r, c) == Cardinality({i \in 1..Len(upstream[r]) : upstream[r][i] = c})

\* r entered pollQueryResults.
Polling(r) == jobId[r] # ""

\* The message of the timeout error names the bound.
NamesTimeout(text) == Includes(text, "timed out after " \o NumStr(DefaultTimeout) \o "ms")

\* C1: when the status responses of a job are k values other than 3 and 4 followed
\* by a 3 or a 4, the loop has made exactly k interval waits (at least k intervals of
\* time) and k+1 status fetches, and the last response decides the outcome: a 4 gives
\* the query-execution error (not the timeout error), a 3 gives the result that
\* response names.
C1_TerminalResponseDecides ==
  \A r \in Req :
    lastJob[r].status \in {3, 4} =>
      /\ pc[r] \in {"awaitResult", "done"}
      /\ waits[r] = nonTerminal[r]
      /\ CountCalls(r, JobStatusCall(jobId[r])) = nonTerminal[r] + 1
      /\ now - startTime[r] >= nonTerminal[r] * DefaultInterval
      /\ lastJob[r].status = 4 =>
           /\ pc[r] = "done"
           /\ pollResult[r].kind = "throw"
           /\ StartsWith(pollResult[r].value, "Query execution failed: ")
      /\ (lastJob[r].status = 3 /\ pc[r] = "done" /\ pollResult[r].kind = "return") =>
           pollResult[r].value =
             IF lastJob[r].query_result_id # 0 THEN resultData[r] ELSE lastJob[r].result

\* The responses [1,1,1,3]: a result after three waits and four fetches.
C1_Witness ==
  /\ pc["r1"] = "done"
  /\ nonTerminal["r1"] = 3
  /\ waits["r1"] = 3
  /\ CountCalls("r1", JobStatusCall(jobId["r1"])) = 4
  /\ lastJob["r1"].status = 3
  /\ pollResult["r1"].kind = "return"

\* C2: a status response ends polling exactly when its status is 3 or 4; after any
\* other status the loop arms the interval wait, and when the wait is over it fetches
\* the status of the same job again, unless the time is up by then.
C2_OnlyThreeAndFourEndPolling ==
  [][\A r \in Req :
       /\ (pc[r] = "awaitStatus" /\ pc'[r] # "awaitStatus"
              /\ statusErrors'[r] = statusErrors[r]) =>
            /\ lastJob'[r].status \in {3, 4} <=> pc'[r] \in {"done", "awaitResult"}
            /\ lastJob'[r].status \notin {3, 4} <=> pc'[r] = "waiting"
            /\ pc'[r] = "waiting" =>
                 /\ waitStart'[r] = now
                 /\ pollResult'[r] = NoOutcome
                 /\ upstream'[r] = upstream[r]
       /\ (pc[r] = "waiting" /\ pc'[r] # "waiting") =>
            /\ now - waitStart[r] >= DefaultInterval
            /\ now - startTime[r] < DefaultTimeout =>
                 /\ pc'[r] = "awaitStatus"
                 /\ upstream'[r] = Append(upstream[r], JobStatusCall(jobId[r]))
            /\ now - startTime[r] >= DefaultTimeout =>
                 /\ pc'[r] = "done"
                 /\ StartsWith(pollResult'[r].value, "Query execution timed out")
    ]_vars

\* A cancelled job (status 5) is waited on and fetched again.
C2_Witness ==
  /\ pc["r1"] = "awaitStatus"
  /\ lastJob["r1"].status = 5
  /\ waits["r1"] = 1
  /\ CountCalls("r1", JobStatusCall(jobId["r1"])) = 2

\* C3: when the poll loop ends without having seen status 3 or 4 and without a failed
\* status fetch, the time is up and the execute call fails with the timeout error,
\* whose message names the bound, as an error-flagged tool result; an execute call
\* that polled returns a value only for a completed job.
C3_TimeoutFailsTheCall ==
  \A r \in Req :
    /\ (pc[r] = "done" /\ Polling(r) /\ lastJob[r].status \notin {3, 4}
          /\ statusErrors[r] = 0) =>
         /\ now - startTime[r] >= DefaultTimeout
         /\ pollResult[r].kind = "throw"
         /\ NamesTimeout(pollResult[r].value)
         /\ gatewayResult[r].kind = "throw"
         /\ NamesTimeout(gatewayResult[r].value)
         /\ request[r].kind = "call_tool" =>
              /\ response[r].isError
              /\ NamesTimeout(response[r].text)
    /\ (Polling(r) /\ gatewayResult[r].kind = "return") => lastJob[r].status = 3

\* A job still running when the time is up: the call has failed.
C3_Witness ==
  /\ pc["r1"] = "done"
  /\ Polling("r1")
  /\ lastJob["r1"].status = 1
  /\ statusErrors["r1"] = 0
  /\ now - startTime["r1"] >= DefaultTimeout
  /\ gatewayResult["r1"].kind = "throw"

\* C4: a status response of 4 ends the loop in that step with the error
\* "Query execution failed: " followed by the job's error text, or by "Unknown error"
\* when the job has none; the status fetch that brought it is the last upstream call
\* and no wait follows it.
C4_FailedStatusFailsAtOnce ==
  \A r \in Req :
    lastJob[r].status = 4 =>
      /\ pc[r] = "done"
      /\ pollResult[r].kind = "throw"
      /\ pollResult[r].value =
           "Query execution failed: "
             \o (IF lastJob[r].error = "" THEN "Unknown error" ELSE lastJob[r].error)
      /\ Last(upstream[r]) = JobStatusCall(jobId[r])
      /\ CountCalls(r, JobStatusCall(jobId[r])) = nonTerminal[r] + 1
      /\ waits[r] = nonTerminal[r]

\* A failed job that reports an error text, after one wait.
C4_Witness ==
  /\ lastJob["r1"].status = 4
  /\ lastJob["r1"].error = "syntax error"
  /\ waits["r1"] = 1
  /\ pc["r1"] = "done"

\* C5: a failed status fetch ends the loop in that step with an error: it is the
\* only failed fetch, it is the last upstream call, and no wait or fetch follows it.
C5_FailedStatusCheckEndsPolling ==
  \A r \in Req :
    statusErrors[r] > 0 =>
      /\ statusErrors[r] = 1
      /\ pc[r] = "done"
      /\ pollResult[r].kind = "throw"
      /\ StartsWith(pollResult[r].value, "Failed to poll for query results")
      /\ gatewayResult[r].kind = "throw"
      /\ request[r].kind = "call_tool" => response[r].isError
      /\ Last(upstream[r]) = JobStatusCall(jobId[r])
      /\ CountCalls(r, JobStatusCall(jobId[r])) = nonTerminal[r] + 1
      /\ waits[r] = nonTerminal[r]

\* The third status fetch fails after two running responses.
C5_Witness ==
  /\ statusErrors["r1"] = 1
  /\ nonTerminal["r1"] = 2
  /\ pc["r1"] = "done"

\* C6: the error the poll loop raises for status 4 leaves executeQuery and
\* executeAdhocQuery as it was raised: the Gateway method fails with the same message.
C6_FailureErrorPropagatesUnchanged ==
  \A r \in Req :
    (pc[r] = "done" /\ lastJob[r].status = 4) => gatewayResult[r] = pollResult[r]

\* C7: on status 3 with a query_result_id the loop issues one fetch of that stored
\* result and returns its data; on status 3 without one it returns the job's inline
\* result and issues no further upstream call.
C7_CompletionShapes ==
  \A r \in Req :
    lastJob[r].status = 3 =>
      IF lastJob[r].query_result_id # 0
        THEN /\ pc[r] \in {"awaitResult", "done"}
             /\ Last(upstream[r]) = QueryResultCall(lastJob[r].query_result_id)
             /\ CountCalls(r, QueryResultCall(lastJob[r].query_result_id)) = 1
             /\ (pc[r] = "done" /\ resultData[r] # "") =>
                  pollResult[r] = [kind |-> "return", value |-> resultData[r]]
             /\ (pc[r] = "done" /\ resultData[r] = "") =>
                  /\ pollResult[r].kind = "throw"
                  /\ StartsWith(pollResult[r].value, "Failed to poll for query results")
        ELSE /\ pc[r] = "done"
             /\ pollResult[r] = [kind |-> "return", value |-> lastJob[r].result]
             /\ Last(upstream[r]) = JobStatusCall(jobId[r])

\* A completed job with a stored result: the stored result was fetched and returned.
C7_Witness ==
  /\ pc["r1"] = "done"
  /\ lastJob["r1"].status = 3
  /\ lastJob["r1"].query_result_id = 7
  /\ resultData["r1"] = "rows-b"
  /\ pollResult["r1"].kind = "return"

\* C8: when the submission response of execute_query has no job handle, executeQuery
\* returns response.data as it came and the submission is the only upstream call; when
\* it has one, the second upstream call is the status fetch of that job.
C8_InlineResultOrPolling ==
  \A r \in Req :
    (Route(request[r].name) = "execute_query" /\ submitData[r] # NoData) =>
      IF submitData[r].job = ""
        THEN /\ pc[r] = "done"
             /\ gatewayResult[r] = [kind |-> "return", value |-> submitData[r].body]
             /\ upstream[r] =
                  <<HttpCall("POST", "/api/queries/" \o NumStr(request[r].args.id)
                                       \o "/results")>>
        ELSE /\ jobId[r] = submitData[r].job
             /\ Len(upstream[r]) >= 2
             /\ upstream[r][2] = JobStatusCall(submitData[r].job)

\* execute_query answered inline.
C8_Witness ==
  /\ pc["r1"] = "done"
  /\ request["r1"].name = "execute_query"
  /\ submitData["r1"] = [job |-> "", body |-> "rows-a"]
  /\ gatewayResult["r1"].kind = "return"

\* C9: a call of a name that list-tools does not declare is answered with an
\* error-flagged result, and no upstream call is made for it.
C9_UnknownToolNoUpstream ==
  \A r \in Req :
    (request[r].kind = "call_tool" /\ request[r].name \notin DeclaredTools) =>
      /\ pc[r] = "done"
      /\ response[r].kind = "result"
      /\ response[r].isError
      /\ upstream[r] = << >>
      /\ gatewayResult[r] = NoOutcome

\* The hyphenated name list-queries was called.
C9_Witness ==
  /\ pc["r1"] = "done"
  /\ request["r1"].name = "list-queries"
  /\ response["r1"].isError

\* C10: every call-tool dispatch that has ended gave its caller a result object with
\* one text content block, error-flagged or not, and never a fault; while it has not
\* ended, nothing has been given to the caller.
C10_TwoOutcomeShapes ==
  \A r \in Req :
    /\ (pc[r] = "done" /\ request[r].kind = "call_tool") =>
         /\ response[r].kind = "result"
         /\ response[r].type = "text"
         /\ response[r].isError \in BOOLEAN
    /\ pc[r] # "done" => response[r] = NoResponse

\* A call with arguments that fail the schema of a tool of the switch.
C10_Witness ==
  /\ pc["r1"] = "done"
  /\ request["r1"].name = "get_query"
  /\ ~request["r1"].args.valid
  /\ response["r1"].isError

\* ---- validation and request payloads
\* The argument bag of r fails the schema of the tool r names.
FailsSchema(r) ==
  \/ ~request[r].args.valid
  \/ \E k \in DOMAIN SchemaOf(request[r].name) :
       ~Accepts(SchemaOf(request[r].name)[k], Get(request[r].args.fields, k))

\* The body of the first upstream request of r.
SentData(r) == upstream[r][1].data

OptionalCreateKeys == {"description", "options", "schedule", "tags"}

\* C11: a call of a declared tool that has an input schema, with arguments that fail
\* it, is answered with an error-flagged result whose text names the tool; no Gateway
\* operation runs and no upstream call is made.  For create_query and update_query the
\* answer is the one of the early branch ("Invalid parameters for ..."), for the other
\* tools the one of the handler's outer catch.
C11_InvalidArgumentsNoUpstream ==
  \A r \in Req :
    (/\ request[r].kind = "call_tool"
     /\ request[r].name \in DeclaredTools \ {"list_data_sources"}
     /\ FailsSchema(r)) =>
      /\ pc[r] = "done"
      /\ response[r].kind = "result"
      /\ response[r].isError
      /\ Includes(response[r].text, request[r].name)
      /\ upstream[r] = << >>
      /\ gatewayResult[r] = NoOutcome
      /\ IF request[r].name \in {"create_query", "update_query"}
           THEN StartsWith(response[r].text,
                           "Invalid parameters for " \o request[r].name \o ": ")
           ELSE StartsWith(response[r].text,
                           "Error executing tool " \o request[r].name \o ": ")

\* create_query without its required field query: answered by the early branch.
C11_Witness ==
  /\ pc["r1"] = "done"
  /\ request["r1"].name = "create_query"
  /\ request["r1"].args.valid
  /\ "query" \notin DOMAIN request["r1"].args.fields
  /\ response["r1"].isError
  /\ StartsWith(response["r1"].text, "Invalid parameters for create_query")

\* C12: the body update_query and update_visualization transmit has exactly the update
\* fields the caller set, each with the value the caller gave it: a field left out is
\* not sent, a field set to a falsy value (false, 0, "", null) is sent.
C12_PartialUpdateSendsWhatWasSet ==
  \A r \in Req :
    (/\ request[r].kind = "call_tool"
     /\ request[r].name \in {"update_query", "update_visualization"}
     /\ upstream[r] # << >>) =>
      LET fields == request[r].args.fields
          updateFields ==
            IF request[r].name = "update_query"
              THEN {"name", "data_source_id", "query", "description", "options",
                    "schedule", "tags", "is_archived", "is_draft"}
              ELSE {"type", "name", "description", "options"}
      IN /\ DOMAIN SentData(r) = DOMAIN fields \cap updateFields
         /\ \A k \in DOMAIN SentData(r) : SentData(r)[k] = fields[k]

\* update_query with is_archived false and options 0: both are in the body.
C12_Witness ==
  /\ request["r1"].name = "update_query"
  /\ request["r1"].args.fields = [is_archived |-> "false", options |-> "0"]
  /\ upstream["r1"] # << >>
  /\ SentData("r1") = [is_archived |-> "false", options |-> "0"]

\* C13: the body create_query transmits always has the four optional fields, none of
\* them undefined; when the caller set none of them they are description "",
\* options {}, schedule null and tags [].
C13_CreateQueryDefaults ==
  \A r \in Req :
    (/\ request[r].kind = "call_tool"
     /\ request[r].name = "create_query"
     /\ upstream[r] # << >>) =>
      /\ OptionalCreateKeys \subseteq DOMAIN SentData(r)
      /\ \A k \in OptionalCreateKeys : SentData(r)[k] # Undefined
      /\ DOMAIN request[r].args.fields \cap OptionalCreateKeys = {} =>
           /\ SentData(r).description = "''"
           /\ SentData(r).options = "{}"
           /\ SentData(r).schedule = "null"
           /\ SentData(r).tags = "[]"

\* create_query with the three required fields alone has been sent.
C13_Witness ==
  /\ request["r1"].name = "create_query"
  /\ DOMAIN request["r1"].args.fields = {"name", "data_source_id", "query"}
  /\ upstream["r1"] # << >>
  /\ SentData("r1").schedule = "null"
  /\ SentData("r1").tags = "[]"

\* ---- resources
\* r is a list-resources request.
Listing(r) == request[r].kind = "list_resources"

\* The URIs of ResourceUris that name a query or a dashboard by a number.
QueryUris == {"redash://query/42"}
DashboardUris == {"redash://dashboard/42", "redash://dashboard/007"}

\* The number a well-formed URI names.
NumberOf(uri) == IF uri = "redash://dashboard/007" THEN 7 ELSE 42

\* C14: list-resources never raises: every answer it gives is a resource list, never a
\* fault; when the listing of the queries failed, the list has no query in it (it is
\* empty or has dashboards alone).
C14_ListResourcesNeverRaises ==
  \A r \in Req :
    (Listing(r) /\ pc[r] = "done") =>
      /\ response[r].kind = "resources"
      /\ (Len(upstream[r]) = 1 /\ failure[r] # NoFailure) =>
           \A i \in 1..Len(response[r].resources) :
             StartsWith(response[r].resources[i], "redash://dashboard/")

\* The listing of the queries failed with a 500 and a list was returned.
C14_Witness ==
  /\ Listing("r1")
  /\ pc["r1"] = "done"
  /\ Len(upstream["r1"]) = 1
  /\ failure["r1"].status = 500
  /\ response["r1"].kind = "resources"

\* C15: a read-resource request whose URI is not redash://query/<digits> or
\* redash://dashboard/<digits> is rejected with the error "Invalid resource URI: <uri>"
\* and no upstream call is made for it.
C15_MalformedUriNoUpstream ==
  \A r \in Req :
    (Reading(r) /\ request[r].uri \notin QueryUris \cup DashboardUris) =>
      /\ pc[r] = "done"
      /\ response[r].kind = "fault"
      /\ response[r].text = "Invalid resource URI: " \o request[r].uri
      /\ upstream[r] = << >>
      /\ gatewayResult[r] = NoOutcome

\* A URI with trailing text after the id was rejected.
C15_Witness ==
  /\ Reading("r1")
  /\ request["r1"].uri = "redash://query/42/extra"
  /\ pc["r1"] = "done"
  /\ response["r1"].kind = "fault"
  /\ upstream["r1"] = << >>

\* C16: read-resource of a query URI first fetches the query, then submits its
\* execution, then polls the job if the submission returned one, and the content item
\* it returns carries the URI and both the query and the result; read-resource of a
\* dashboard URI issues the dashboard fetch and nothing else.
C16_ReadQueryFetchesThenExecutes ==
  \A r \in Req :
    (Reading(r) /\ upstream[r] # << >>) =>
      LET id == NumStr(NumberOf(request[r].uri)) IN
        IF request[r].uri \in QueryUris
          THEN /\ upstream[r][1] = HttpCall("GET", "/api/queries/" \o id)
               /\ Len(upstream[r]) >= 2 =>
                    /\ query[r] # ""
                    /\ upstream[r][2] =
                         HttpCall("POST", "/api/queries/" \o id \o "/results")
               /\ Len(upstream[r]) >= 3 =>
                    /\ submitData[r].job # ""
                    /\ upstream[r][3] = JobStatusCall(submitData[r].job)
               /\ response[r].kind = "contents" =>
                    /\ Len(upstream[r]) >= 2
                    /\ gatewayResult[r].kind = "return"
                    /\ response[r].uri = request[r].uri
                    /\ response[r].text = "json({query:" \o query[r] \o ",result:"
                                            \o gatewayResult[r].value \o "})"
          ELSE /\ upstream[r] = <<HttpCall("GET", "/api/dashboards/" \o id)>>
               /\ response[r].kind = "contents" =>
                    /\ response[r].uri = request[r].uri
                    /\ response[r].text = Stringify(gatewayResult[r].value)

\* A query resource was read through the polling protocol.
C16_Witness ==
  /\ Reading("r1")
  /\ request["r1"].uri = "redash://query/42"
  /\ pc["r1"] = "done"
  /\ response["r1"].kind = "contents"
  /\ Polling("r1")
  /\ lastJob["r1"].status = 3
  /\ waits["r1"] = 1

\* C17: a read-resource request during which an upstream request failed, or whose job
\* failed or timed out, is answered with a fault that carries the Gateway's error, and
\* with no contents; a list-resources request during which an upstream request failed
\* is answered with a resource list.
C17_ReadPropagatesListSwallows ==
  \A r \in Req :
    /\ (Reading(r) /\ pc[r] = "done"
          /\ (failure[r] # NoFailure \/ gatewayResult[r].kind = "throw")) =>
         /\ gatewayResult[r].kind = "throw"
         /\ response[r].kind = "fault"
         /\ response[r].text = gatewayResult[r].value
    /\ (Listing(r) /\ pc[r] = "done" /\ failure[r] # NoFailure) =>
         /\ gatewayResult[r].kind = "throw"
         /\ response[r].kind = "resources"

\* A status fetch failed while a query resource was read.
C17_Witness ==
  /\ Reading("r1")
  /\ pc["r1"] = "done"
  /\ statusErrors["r1"] = 1
  /\ failure["r1"].status = 502
  /\ response["r1"].kind = "fault"

\* ---- startup
UrlSet == env.REDASH_URL \notin {Undefined, "''"}
KeySet == env.REDASH_API_KEY \notin {Undefined, "''"}

\* C18: no step of a running server ends the process, whatever the request and however
\* it ends; an answered request leaves the server idle and running; an idle running
\* server takes a tool call, a list-resources and a read-resource request; the process
\* ends only at startup, because a required variable is missing or because the
\* transport could not be attached.
C18_ServerSurvivesRequests ==
  /\ [][/\ process = "running" => process' = "running"
        /\ (Exited(process') /\ ~Exited(process)) =>
             \/ process = "starting" /\ ~(UrlSet /\ KeySet)
             \/ process = "connecting"
        /\ \A r \in Req :
             (pc[r] = "done" /\ pc'[r] # "done") =>
               /\ pc'[r] = "idle"
               /\ process' = "running"
       ]_vars
  /\ [](process = "running" /\ pc["r1"] = "idle" =>
          /\ ENABLED CallTool("r1", "get_query", IdArgs(42))
          /\ ENABLED ListResources("r1")
          /\ ENABLED ReadResource("r1", "redash://query/42"))

\* A read-resource request ended in a fault and the server is running.
C18_Witness ==
  /\ process = "running"
  /\ pc["r1"] = "done"
  /\ Reading("r1")
  /\ response["r1"].kind = "fault"
  /\ lastJob["r1"].status = 4

\* C19: once the startup has run, the RedashClient exists exactly when REDASH_URL and
\* REDASH_API_KEY are both set and not empty; if one is unset or empty no client is
\* built and the process has ended; the client has the URL and the key of the
\* environment, and with REDASH_TIMEOUT unset its request timeout is 30000 ms.
C19_ConstructionNeedsUrlAndKey ==
  process # "starting" =>
    IF UrlSet /\ KeySet
      THEN /\ process \in {"connecting", "running", "exit-connect"}
           /\ client.baseUrl = env.REDASH_URL
           /\ client.apiKey = env.REDASH_API_KEY
           /\ env.REDASH_TIMEOUT = Undefined => client.timeout = 30000
      ELSE /\ process \in {"exit-cli", "exit-constructor"}
           /\ client = NoClient

\* index.js was started with an empty API key: the constructor threw.
C19_Witness ==
  /\ process = "exit-constructor"
  /\ UrlSet
  /\ env.REDASH_API_KEY = "''"
  /\ client = NoClient

\* C20: when the upstream answers the fetch of get_query with status 404, the error
\* RedashClient.getQuery throws differs from the error it throws for every other
\* upstream failure.
C20_NotFoundIsDistinct ==
  \A r \in Req :
    (/\ request[r].kind = "call_tool"
     /\ request[r].name = "get_query"
     /\ pc[r] = "done"
     /\ failure[r].status = 404) =>
      /\ gatewayResult[r].kind = "throw"
      /\ \A e \in AxiosFailures :
           e.status # 404 =>
             gatewayResult[r].value
               # GatewayCatch("get_query", request[r].args.id, e).message

\* ---- single requests
\* The tools that create, update, archive or delete.
WriteTools ==
  {"create_query", "update_query", "archive_query", "create_visualization",
   "update_visualization", "delete_visualization"}

\* C21: a create, update, archive or delete tool that passed validation has issued
\* exactly one upstream request, the one of its Gateway method, while it waits and when
\* it has ended, whether the request succeeded or failed: a failed request is not sent
\* again; archiveQuery returns {success: true} only when its one DELETE request did not
\* fail.
C21_OneUpstreamRequest ==
  \A r \in Req :
    (/\ request[r].kind = "call_tool"
     /\ request[r].name \in WriteTools
     /\ pc[r] \in {"awaitUpstream", "done"}
     /\ ~FailsSchema(r)) =>
      /\ upstream[r] = <<GatewayCall(request[r].name, request[r].args)>>
      /\ (pc[r] = "done" /\ failure[r] # NoFailure) =>
           /\ gatewayResult[r].kind = "throw"
           /\ response[r].isError
      /\ (request[r].name = "archive_query" /\ gatewayResult[r].kind = "return") =>
           /\ gatewayResult[r].value = "{success:true}"
           /\ failure[r] = NoFailure
           /\ upstream[r] =
                <<HttpCall("DELETE", "/api/queries/" \o NumStr(request[r].args.id))>>

\* archive_query ended after its DELETE request failed with a 500.
C21_Witness ==
  /\ request["r1"].name = "archive_query"
  /\ pc["r1"] = "done"
  /\ failure["r1"].status = 500
  /\ Len(upstream["r1"]) = 1
  /\ gatewayResult["r1"].kind = "throw"

\* ---- two requests in flight
\* The fields of the poll loop and of the answer of request r.
OwnState(r) ==
  <<pc[r], request[r], upstream[r], jobId[r], startTime[r], waitStart[r], fetches[r],
    waits[r], nonTerminal[r], lastJob[r], statusErrors[r], submitData[r], resultData[r],
    pollResult[r], gatewayResult[r], response[r]>>

\* The outcome of a poll loop that ended, read off the loop's own job responses.
OutcomeOf(r) ==
  IF statusErrors[r] > 0 THEN "poll-error"
  ELSE IF lastJob[r].status = 4 THEN "failure"
  ELSE IF lastJob[r].status = 3 THEN
    IF lastJob[r].query_result_id = 0 \/ resultData[r] # "" THEN "result" ELSE "poll-error"
  ELSE "timeout"

\* C22: with two execute requests in flight, in every interleaving of their steps:
\* a step of one request changes nothing of the other's poll loop or answer; the job id
\* and the start time of a loop are set once, when its own submission returns, to the
\* job of that submission and the time of that moment; every status fetch of a request
\* names its own job; and the outcome of a loop that ended is the one its own last
\* status response and its own elapsed time give: the result of a completed job, the
\* error of a failed one, the timeout error exactly when its own elapsed time has
\* reached the timeout.
C22_PollStateIsPerRequest ==
  /\ [][\A r \in Req :
          /\ pc'[r] = pc[r] => OwnState(r)' = OwnState(r)
          /\ (jobId'[r] # jobId[r] \/ startTime'[r] # startTime[r]) =>
               \/ /\ pc[r] = "awaitSubmit"
                  /\ jobId'[r] = submitData'[r].job
                  /\ startTime'[r] = now
               \/ pc[r] = "done" /\ pc'[r] = "idle"
      ]_vars
  /\ [](\A r \in Req :
          /\ \A i \in 1..Len(upstream[r]) :
               StartsWith(upstream[r][i].path, "/api/jobs/") =>
                 /\ upstream[r][i] = JobStatusCall(JobIdOf(r))
                 /\ jobId[r] = JobIdOf(r)
          /\ (pc[r] = "done" /\ Polling(r)) =>
               /\ pollResult[r].kind = "return" <=> OutcomeOf(r) = "result"
               /\ OutcomeOf(r) = "result" =>
                    pollResult[r].value =
                      IF lastJob[r].query_result_id # 0 THEN resultData[r]
                      ELSE lastJob[r].result
               /\ OutcomeOf(r) = "failure" =>
                    StartsWith(pollResult[r].value, "Query execution failed: ")
               /\ OutcomeOf(r) = "poll-error" =>
                    StartsWith(pollResult[r].value,
                               "Failed to poll for query results (job " \o JobIdOf(r))
               /\ OutcomeOf(r) = "timeout" <=> NamesTimeout(pollResult[r].value)
               /\ OutcomeOf(r) = "timeout" => now - startTime[r] >= DefaultTimeout)

\* Two loops that started at different times: the first has timed out while the
\* second, started later, has waited and fetches the status of its own job again.
C22_Witness ==
  /\ pc["r1"] = "done"
  /\ NamesTimeout(pollResult["r1"].value)
  /\ pc["r2"] = "awaitStatus"
  /\ waits["r2"] >= 1
  /\ startTime["r2"] > startTime["r1"]
  /\ now - startTime["r2"] < DefaultTimeout

\* ---- termination
\* The ways a poll loop ends.
PollEndings(r) ==
  {k \in {"result", "failure", "poll-error", "timeout"} :
     \/ k = "result" /\ pollResult[r].kind = "return"
     \/ k = "failure" /\ pollResult[r].kind = "throw"
          /\ StartsWith(pollResult[r].value, "Query execution failed: ")
     \/ k = "poll-error" /\ pollResult[r].kind = "throw"
          /\ StartsWith(pollResult[r].value, "Failed to poll for query results")
     \/ k = "timeout" /\ pollResult[r].kind = "throw"
          /\ StartsWith(pollResult[r].value, "Query execution timed out after ")}

\* C23: when every upstream request of the loop ends, a due timer fires and time
\* advances, a poll loop that is running eventually ends, whatever statuses the
\* upstream answers; a loop that ended did so in exactly one of four ways: it returned
\* a result, or it threw the query-execution failure, the polling error or the timeout
\* error; while it runs it has no outcome.
C23_PollLoopTerminates ==
  /\ \A r \in Req : InPollLoop(r) ~> (pc[r] = "done" /\ Cardinality(PollEndings(r)) = 1)
  /\ [](\A r \in Req :
          /\ InPollLoop(r) => pollResult[r] = NoOutcome
          /\ (pc[r] = "done" /\ Polling(r)) => Cardinality(PollEndings(r)) = 1)

\* A job that was cancelled (status 5) in every response: the loop ended in the
\* timeout after sixty waits.
C23_Witness ==
  /\ pc["r1"] = "done"
  /\ lastJob["r1"].status = 5
  /\ waits["r1"] = DefaultTimeout \div DefaultInterval
  /\ PollEndings("r1") = {"timeout"}

\* ---- the tool catalog
\* C24: every tool name the README lists is a tool of the server: list-tools declares
\* it under that name, and a call of that name is routed to a tool function, not
\* answered with the unknown-tool error.
C24_ReadmeToolsAreTools ==
  \A r \in Req :
    (/\ request[r].kind = "call_tool"
     /\ request[r].name \in ReadmeTools
     /\ pc[r] = "done") =>
      /\ request[r].name \in DeclaredTools
      /\ Route(request[r].name) # ""
      /\ response[r] # UnknownTool(request[r].name)

\* ---- dispatch results
\* r is a call of a declared tool with arguments its schema accepts, and it has ended.
ValidCallEnded(r) ==
  /\ request[r].kind = "call_tool"
  /\ request[r].name \in DeclaredTools
  /\ ~FailsSchema(r)
  /\ pc[r] = "done"

\* s ends with the text p.
EndsWith(s, p) == Len(s) >= Len(p) /\ SubSeq(s, Len(s) - Len(p) + 1, Len(s)) = p

\* The result of r is error-flagged exactly when its Gateway operation failed, and a
\* failed operation gives an error-flagged text block that ends with the Gateway's
\* message.
FlaggedIffGatewayFailed(r) ==
  /\ gatewayResult[r].kind \in {"return", "throw"}
  /\ response[r].kind = "result"
  /\ response[r].type = "text"
  /\ response[r].isError <=> gatewayResult[r].kind = "throw"
  /\ gatewayResult[r].kind = "throw" =>
       /\ gatewayResult[r].value # ""
       /\ EndsWith(response[r].text, ": " \o gatewayResult[r].value)

\* C25 as the spec states it: for every call of a declared tool with valid arguments the
\* result is error-flagged exactly when the Gateway operation failed, and the text of
\* every successful result is the serialization of the Gateway's return value.
C25_SuccessTextIsSerialization ==
  \A r \in Req :
    ValidCallEnded(r) =>
      /\ FlaggedIffGatewayFailed(r)
      /\ gatewayResult[r].kind = "return" =>
           response[r].text = Stringify(gatewayResult[r].value)

\* C25, amended: for every call of a declared tool with valid arguments the result is
\* error-flagged exactly when the Gateway operation failed; a failed operation gives
\* an error-flagged text block with the Gateway's message; a successful one gives a
\* text block that is not error-flagged and holds the serialization of the Gateway's
\* return value, except for delete_visualization, whose Gateway operation returns
\* nothing and whose text is "Visualization <id> deleted successfully".
C25_ErrorFlagIffGatewayFailed ==
  \A r \in Req :
    ValidCallEnded(r) =>
      /\ FlaggedIffGatewayFailed(r)
      /\ gatewayResult[r].kind = "return" =>
           response[r].text =
             IF request[r].name = "delete_visualization"
               THEN "Visualization " \o NumStr(request[r].args.id)
                      \o " deleted successfully"
               ELSE Stringify(gatewayResult[r].value)

\* delete_visualization succeeded: the text is the confirmation, not a serialization.
C25_Witness ==
  /\ ValidCallEnded("r1")
  /\ request["r1"].name = "delete_visualization"
  /\ gatewayResult["r1"].kind = "return"
  /\ ~response["r1"].isError
  /\ response["r1"].text = "Visualization 42 deleted successfully"

\* C26: the names list-tools declares are the names call-tool routes to a tool
\* function: a call of a declared name is never answered with the unknown-tool error
\* and, with arguments its schema accepts, issues the upstream request of its Gateway
\* operation; a call of any other name is answered with the unknown-tool error and
\* reaches no Gateway operation.
C26_DeclaredEqualsRouted ==
  /\ {n \in ToolNames : Route(n) # ""} = DeclaredTools
  /\ \A r \in Req :
       request[r].kind = "call_tool" =>
         IF request[r].name \in DeclaredTools
           THEN /\ response[r] # UnknownTool(request[r].name)
                /\ ~FailsSchema(r) =>
                     /\ upstream[r] # << >>
                     /\ upstream[r][1] = GatewayCall(request[r].name, request[r].args)
           ELSE /\ pc[r] = "done"
                /\ response[r] = UnknownTool(request[r].name)
                /\ upstream[r] = << >>
                /\ gatewayResult[r] = NoOutcome

\* create_query, which the switch has no case for, reached its Gateway operation.
C26_Witness ==
  /\ request["r1"].kind = "call_tool"
  /\ request["r1"].name = "create_query"
  /\ pc["r1"] = "awaitUpstream"
  /\ upstream["r1"][1].path = "/api/queries"

\* ---- resource URIs
\* The URI list-resources forms for the entity (kind, id) is read back by
\* read-resource as that entity, and the read fetches it.
ReadsBack(kind, id) ==
  LET match == MatchResourceUri(ResourceUri(kind, id)) IN
    /\ match.ok
    /\ match.type = kind
    /\ ParseInt(match.id) = id
    /\ ReadCall(match.type, ParseInt(match.id)) =
         HttpCall("GET", (IF kind = "query" THEN "/api/queries/" ELSE "/api/dashboards/")
                           \o NumStr(id))

\* C27: every URI list-resources returns matches the pattern of read-resource and is
\* parsed back to the kind and the id it was formed from (the queries first, as many
\* as the query listing returned, then the dashboards), so that the first request of
\* the read is the fetch of the listed entity; the same holds of the URI of every
\* query and dashboard id from 0 to MaxResourceId.
C27_ListedUrisReadBack ==
  \A r \in Req :
    (Listing(r) /\ pc[r] = "done") =>
      /\ \A i \in 1..Len(response[r].resources) :
           LET match == MatchResourceUri(response[r].resources[i]) IN
             /\ match.ok
             /\ ResourceUri(match.type, ParseInt(match.id)) = response[r].resources[i]
             /\ ReadsBack(match.type, ParseInt(match.id))
             /\ IF i <= Len(queries[r])
                  THEN match.type = "query" /\ ParseInt(match.id) = queries[r][i]
                  ELSE match.type = "dashboard"
      /\ \A kind \in {"query", "dashboard"} : \A id \in 0..MaxResourceId :
           ReadsBack(kind, id)

\* Two queries and two dashboards, one of them with the id 0, were listed.
C27_Witness ==
  /\ Listing("r1")
  /\ pc["r1"] = "done"
  /\ response["r1"].resources =
       <<"redash://query/42", "redash://query/7", "redash://dashboard/0",
         "redash://dashboard/100">>

\* ---- the deadline of the poll loop
\* C28: the poll loop tests the timeout only at the head of the loop: a status fetch
\* is started only while the elapsed time is below the timeout; a status response of
\* 3 or 4 decides the outcome (the result, or the query-execution failure) also when
\* the deadline has passed by the time it arrives; and the timeout error is reported
\* only when the time is up and the last status response was neither 3 nor 4.
C28_TimeoutCheckedBeforeFetch ==
  /\ [][\A r \in Req :
          fetches'[r] = fetches[r] + 1 =>
            /\ upstream'[r] = Append(upstream[r], JobStatusCall(jobId'[r]))
            /\ now - startTime'[r] < DefaultTimeout
      ]_vars
  /\ [](\A r \in Req :
          /\ (pc[r] = "done" /\ lastJob[r].status = 4) =>
               StartsWith(pollResult[r].value, "Query execution failed: ")
          /\ (pc[r] = "done" /\ lastJob[r].status = 3) =>
               \/ pollResult[r].kind = "return"
               \/ StartsWith(pollResult[r].value, "Failed to poll for query results")
          /\ (pc[r] = "done" /\ NamesTimeout(pollResult[r].value)) =>
               /\ lastJob[r].status \in StatusValues \ {3, 4}
               /\ now - startTime[r] >= DefaultTimeout
               /\ waits[r] = fetches[r])

\* The response to a status fetch arrived after the deadline with status 3: the
\* result was returned.
C28_Witness ==
  /\ pc["r1"] = "done"
  /\ lastJob["r1"].status = 3
  /\ lastJob["r1"].query_result_id = NoId
  /\ pollResult["r1"].kind = "return"
  /\ fetches["r1"] = 2
  /\ now - startTime["r1"] > DefaultTimeout

\* ---- the resource list
\* C29: list-resources answers with the resources of both listings, the queries first
\* and the dashboards after them, when both listing calls succeeded, and with the
\* empty list otherwise: when the dashboard listing fails, the queries already fetched
\* are not returned; when the query listing fails, no dashboard listing is requested.
C29_ListIsAllOrNothing ==
  \A r \in Req :
    (Listing(r) /\ pc[r] = "done") =>
      /\ response[r].kind = "resources"
      /\ upstream[r][1] = HttpCall("GET", "/api/queries")
      /\ IF gatewayResult[r].kind = "return"
           THEN /\ failure[r] = NoFailure
                /\ upstream[r] = <<HttpCall("GET", "/api/queries"),
                                   HttpCall("GET", "/api/dashboards")>>
                /\ Len(response[r].resources) >= Len(queries[r])
                /\ \A i \in 1..Len(response[r].resources) :
                     IF i <= Len(queries[r])
                       THEN response[r].resources[i]
                              = "redash://query/" \o NumStr(queries[r][i])
                       ELSE StartsWith(response[r].resources[i], "redash://dashboard/")
           ELSE /\ failure[r] # NoFailure
                /\ response[r].resources = << >>
                /\ gatewayResult[r].value = "Failed to fetch queries from Redash" =>
                     upstream[r] = <<HttpCall("GET", "/api/queries")>>
                /\ gatewayResult[r].value # "Failed to fetch queries from Redash" =>
                     /\ gatewayResult[r].value = "Failed to fetch dashboards from Redash"
                     /\ Len(upstream[r]) = 2

\* Two queries were fetched, then the dashboard listing failed: the list is empty.
C29_Witness ==
  /\ Listing("r1")
  /\ pc["r1"] = "done"
  /\ queries["r1"] = <<42, 7>>
  /\ gatewayResult["r1"].value = "Failed to fetch dashboards from Redash"
  /\ response["r1"].resources = << >>

\* ---- provided values
\* C30: every optional field of create_query that the caller provided is in the
\* transmitted body with the value provided, a falsy one (false, 0, "", null)
\* included: only fields left out get their default.
C30_ProvidedValuesReachUpstream ==
  \A r \in Req :
    (/\ request[r].kind = "call_tool"
     /\ request[r].name = "create_query"
     /\ upstream[r] # << >>) =>
      \A k \in DOMAIN request[r].args.fields \cap OptionalCreateKeys :
        /\ k \in DOMAIN SentData(r)
        /\ SentData(r)[k] = request[r].args.fields[k]

====
